---- MODULE Spec2Model ----
(***************************************************************************)
(* A model of nlq_translator: the Elasticsearch query validator            *)
(* (elasticsearch/query_validator.py), the tolerant JSON extraction        *)
(* (utils/query_utils.py, elasticsearch/query_generator.py) and the        *)
(* NLQueryTranslator instance that the web interface shares between        *)
(* requests (core/translator.py, web_interface/app.py).                    *)
(*                                                                         *)
(* A Python str is a sequence of atoms.  An atom stands for one character  *)
(* or for one run of characters that no operation of the program ever      *)
(* splits ("query", "title", "Sure", the three backticks of a fence).      *)
(* String concatenation is \o, so an f-string is the concatenation of its  *)
(* pieces and "k occurs in the message" is a statement about subsequences. *)
(*                                                                         *)
(* A JSON value / Python object is a tagged record: None, bool, int,       *)
(* float, str, list, dict (insertion ordered, keys unique).                *)
(***************************************************************************)
EXTENDS Integers, Sequences, FiniteSets, TLC

VARIABLES
    \* the tolerant extraction: position, the value serialised (or Absent),
    \* the text, the function applied and what it gave
    r_pc, r_value, r_text, r_fn, r_result,
    \* one call of ElasticsearchQueryValidator(mapping).validate(query)
    v_pc, v_query, v_mapping, v_result,
    \* the shared NLQueryTranslator: the mapping its query_validator was
    \* built with, the state of its database_client, the calls made so far
    query_validator, database_client, calls,
    \* each thread's call of NLQueryTranslator.validate: position, arguments,
    \* the branch of the if it took, and what the call gave
    t_pc, t_query, t_mapping, t_branch, t_result,
    \* the last call of translate, validate, fix, improve or execute made by
    \* the one caller of the translator: its name and arguments, what
    \* is_connected() told it (Absent when not asked), whether it consulted
    \* self.validate, the error_message it gave fix_query, whether it called execute_query, what it gave; and the
    \* queries validate has found valid so far
    o_op, o_query, o_mapping, o_error_message, o_is_connected, o_consulted,
    o_passed, o_forwarded, o_result, validated,
    \* one ElasticsearchClient: self.client (None or the handle it holds),
    \* self.index, the number of handles made so far, the last method called
    \* on it with its argument, what is_connected() told it (Absent when not
    \* asked), what it gave and the requests it sent to the handle, how the
    \* last connect ended and whether a disconnect has succeeded since
    client, index, handles, c_op, c_arg, c_is_connected, c_result, c_requests,
    c_connect, c_disconnected,
    \* one call of QueryExporter.export or NLQueryTranslator.export: the
    \* exporter's pretty_print, the arguments, the method, what it gave
    x_pretty_print, x_query, x_format, x_op, x_result

r_vars == <<r_pc, r_value, r_text, r_fn, r_result>>
v_vars == <<v_pc, v_query, v_mapping, v_result>>
t_vars == <<query_validator, database_client, calls,
            t_pc, t_query, t_mapping, t_branch, t_result>>
o_vars == <<o_op, o_query, o_mapping, o_error_message, o_is_connected, o_consulted,
            o_passed, o_forwarded, o_result, validated>>
c_vars == <<client, index, handles, c_op, c_arg, c_is_connected, c_result,
            c_requests, c_connect, c_disconnected>>
x_vars == <<x_pretty_print, x_query, x_format, x_op, x_result>>
vars == <<r_pc, r_value, r_text, r_fn, r_result, v_pc, v_query, v_mapping, v_result,
          query_validator, database_client, calls,
          t_pc, t_query, t_mapping, t_branch, t_result,
          o_op, o_query, o_mapping, o_error_message, o_is_connected, o_consulted,
          o_passed, o_forwarded, o_result, validated,
          client, index, handles, c_op, c_arg, c_is_connected, c_result,
          c_requests, c_connect, c_disconnected,
          x_pretty_print, x_query, x_format, x_op, x_result>>

----------------------------------------------------------------------------
(* Python objects *)

None == [t |-> "none"]
\* no object at all: an argument that was not given, a value not yet computed
Absent == [t |-> "absent"]
VBool(b) == [t |-> "bool", b |-> b]
VInt(n) == [t |-> "int", n |-> n]
\* a float written <ip>.<fp>, negative when neg; fp is a sequence of digits
VFloat(neg, ip, fp) == [t |-> "float", neg |-> neg, ip |-> ip, fp |-> fp]
VStr(s) == [t |-> "str", s |-> s]
VList(items) == [t |-> "list", items |-> items]
\* kv is the sequence of <<key, value>> pairs in insertion order; a key is a str
VDict(kv) == [t |-> "dict", kv |-> kv]

IsDict(v) == v.t = "dict"
IsList(v) == v.t = "list"
IsStr(v) == v.t = "str"
\* isinstance(v, int): bool is a subclass of int
IsInstanceInt(v) == v.t \in {"int", "bool"}
\* the value of an int or a bool in arithmetic: True is 1, False is 0
IntValue(v) == IF v.t = "bool" THEN (IF v.b THEN 1 ELSE 0) ELSE v.n

\* the truth value Python gives an object: `if v`, `not v`
Truthy(v) ==
    CASE v.t = "none" -> FALSE
      [] v.t = "bool" -> v.b
      [] v.t = "int" -> v.n # 0
      [] v.t = "float" -> ~(v.ip = 0 /\ \A i \in 1..Len(v.fp) : v.fp[i] = "0")
      [] v.t = "str" -> Len(v.s) > 0
      [] v.t = "list" -> Len(v.items) > 0
      [] v.t = "dict" -> Len(v.kv) > 0

\* dict operations: keys in insertion order, k in d, d[k], d[k] = v
Keys(d) == [i \in 1..Len(d.kv) |-> d.kv[i][1]]
HasKey(d, k) == \E i \in 1..Len(d.kv) : d.kv[i][1] = k
Get(d, k) == d.kv[CHOOSE i \in 1..Len(d.kv) : d.kv[i][1] = k][2]
DictSet(kv, k, v) ==
    IF \E i \in 1..Len(kv) : kv[i][1] = k
    THEN [i \in 1..Len(kv) |-> IF kv[i][1] = k THEN <<k, v>> ELSE kv[i]]
    ELSE Append(kv, <<k, v>>)

\* a one-atom str
K(a) == <<a>>

\* sep.join(parts)
RECURSIVE Join(_, _)
Join(parts, sep) ==
    IF Len(parts) = 0 THEN <<>>
    ELSE IF Len(parts) = 1 THEN parts[1]
    ELSE parts[1] \o sep \o Join(Tail(parts), sep)

\* `needle in haystack` for two str
Contains(haystack, needle) ==
    \E i \in 0..(Len(haystack) - Len(needle)) :
        \A j \in 1..Len(needle) : haystack[i + j] = needle[j]

\* what a call does: return a value, or raise
Return(v) == [out |-> "return", val |-> v]
Raise(e) == [out |-> "raise", exc |-> e]

----------------------------------------------------------------------------
(* The characters of a text *)

Quote == "\""
Backslash == "\\"
\* the three backticks that open or close a fenced block
Fence == "BACKTICKS"
Whitespace == {" ", "\n"}
DigitAtoms == <<"0", "1", "2", "3", "4", "5", "6", "7", "8", "9">>
Digits == {DigitAtoms[i] : i \in 1..10}
DigitVal(a) == (CHOOSE i \in 1..10 : DigitAtoms[i] = a) - 1

----------------------------------------------------------------------------
(* json.dumps with the default separators ", " and ": " *)

RECURSIVE NatDigits(_)
NatDigits(n) ==
    IF n < 10 THEN <<DigitAtoms[n + 1]>>
    ELSE NatDigits(n \div 10) \o <<DigitAtoms[(n % 10) + 1]>>

RECURSIVE EscapeStr(_)
EscapeStr(s) ==
    IF Len(s) = 0 THEN <<>>
    ELSE (IF s[1] \in {Quote, Backslash} THEN <<Backslash, s[1]>>
          ELSE IF s[1] = "\n" THEN <<Backslash, "n">>
          ELSE <<s[1]>>) \o EscapeStr(Tail(s))

DumpsStr(s) == <<Quote>> \o EscapeStr(s) \o <<Quote>>

RECURSIVE json_dumps(_)
RECURSIVE DumpsItems(_)
RECURSIVE DumpsMembers(_)
DumpsItems(items) ==
    IF Len(items) = 0 THEN <<>>
    ELSE json_dumps(items[1])
         \o (IF Len(items) > 1 THEN <<",", " ">> ELSE <<>>)
         \o DumpsItems(Tail(items))
DumpsMembers(kv) ==
    IF Len(kv) = 0 THEN <<>>
    ELSE DumpsStr(kv[1][1]) \o <<":", " ">> \o json_dumps(kv[1][2])
         \o (IF Len(kv) > 1 THEN <<",", " ">> ELSE <<>>)
         \o DumpsMembers(Tail(kv))
json_dumps(v) ==
    CASE v.t = "none" -> <<"null">>
      [] v.t = "bool" -> IF v.b THEN <<"true">> ELSE <<"false">>
      [] v.t = "int" -> IF v.n < 0 THEN <<"-">> \o NatDigits(-v.n) ELSE NatDigits(v.n)
      [] v.t = "float" -> (IF v.neg THEN <<"-">> ELSE <<>>)
                          \o NatDigits(v.ip) \o <<".">> \o v.fp
      [] v.t = "str" -> DumpsStr(v.s)
      [] v.t = "list" -> <<"[">> \o DumpsItems(v.items) \o <<"]">>
      [] v.t = "dict" -> <<"{">> \o DumpsMembers(v.kv) \o <<"}">>

----------------------------------------------------------------------------
(* json.loads: a recursive-descent parse of a whole text.  A parse step    *)
(* returns [ok, val, pos]: pos is the index after what it consumed.        *)

Parsed(v, p) == [ok |-> TRUE, val |-> v, pos |-> p]
ParseFail == [ok |-> FALSE, val |-> None, pos |-> 0]

RECURSIVE SkipWs(_, _)
SkipWs(txt, i) ==
    IF i <= Len(txt) /\ txt[i] \in Whitespace THEN SkipWs(txt, i + 1) ELSE i

At(txt, i) == IF i >= 1 /\ i <= Len(txt) THEN txt[i] ELSE "<end>"

\* the characters of a string literal, from the first one after the opening
\* quote; a raw newline inside a literal is rejected (strict mode)
RECURSIVE ScanString(_, _, _)
ScanString(txt, i, acc) ==
    IF i > Len(txt) THEN ParseFail
    ELSE IF txt[i] = Quote THEN Parsed(acc, i + 1)
    ELSE IF txt[i] = "\n" THEN ParseFail
    ELSE IF txt[i] = Backslash
         THEN IF At(txt, i + 1) \in {Quote, Backslash}
              THEN ScanString(txt, i + 2, Append(acc, txt[i + 1]))
              ELSE IF At(txt, i + 1) = "n"
              THEN ScanString(txt, i + 2, Append(acc, "\n"))
              ELSE ParseFail
    ELSE ScanString(txt, i + 1, Append(acc, txt[i]))

\* the end of a run of digits starting at i
RECURSIVE DigitsEnd(_, _)
DigitsEnd(txt, i) ==
    IF At(txt, i) \in Digits THEN DigitsEnd(txt, i + 1) ELSE i

RECURSIVE DigitsValue(_, _, _, _)
DigitsValue(txt, i, j, acc) ==
    IF i >= j THEN acc ELSE DigitsValue(txt, i + 1, j, acc * 10 + DigitVal(txt[i]))

\* a fraction with its trailing zeros dropped, one digit kept
RECURSIVE StripZeros(_)
StripZeros(fp) ==
    IF Len(fp) > 1 /\ fp[Len(fp)] = "0" THEN StripZeros(SubSeq(fp, 1, Len(fp) - 1))
    ELSE fp

\* -?(0|[1-9][0-9]*)(\.[0-9]+)? starting at i
ScanNumber(txt, i) ==
    LET neg == At(txt, i) = "-"
        s == IF neg THEN i + 1 ELSE i
        e == IF At(txt, s) = "0" THEN s + 1 ELSE DigitsEnd(txt, s)
        ip == DigitsValue(txt, s, e, 0)
        fe == DigitsEnd(txt, e + 1)
    IN IF e = s THEN ParseFail
       ELSE IF At(txt, e) = "." /\ fe > e + 1
            THEN Parsed(VFloat(neg, ip, StripZeros(SubSeq(txt, e + 1, fe - 1))), fe)
            ELSE Parsed(VInt(IF neg THEN -ip ELSE ip), e)

RECURSIVE ParseValue(_, _)
RECURSIVE ParseMembers(_, _, _)
RECURSIVE ParseElements(_, _, _)
\* the members of an object, from the first key; a repeated key keeps its
\* place and takes the later value
ParseMembers(txt, i, kv) ==
    IF At(txt, i) # Quote THEN ParseFail
    ELSE LET k == ScanString(txt, i + 1, <<>>)
         IN IF ~k.ok THEN ParseFail
            ELSE LET c == SkipWs(txt, k.pos)
                 IN IF At(txt, c) # ":" THEN ParseFail
                    ELSE LET v == ParseValue(txt, SkipWs(txt, c + 1))
                         IN IF ~v.ok THEN ParseFail
                            ELSE LET m == SkipWs(txt, v.pos)
                                     kv2 == DictSet(kv, k.val, v.val)
                                 IN IF At(txt, m) = "}" THEN Parsed(VDict(kv2), m + 1)
                                    ELSE IF At(txt, m) = ","
                                    THEN ParseMembers(txt, SkipWs(txt, m + 1), kv2)
                                    ELSE ParseFail
ParseElements(txt, i, items) ==
    LET v == ParseValue(txt, i)
    IN IF ~v.ok THEN ParseFail
       ELSE LET m == SkipWs(txt, v.pos)
                items2 == Append(items, v.val)
            IN IF At(txt, m) = "]" THEN Parsed(VList(items2), m + 1)
               ELSE IF At(txt, m) = ","
               THEN ParseElements(txt, SkipWs(txt, m + 1), items2)
               ELSE ParseFail
ParseValue(txt, i) ==
    LET c == At(txt, i)
    IN CASE c = Quote ->
              LET s == ScanString(txt, i + 1, <<>>)
              IN IF s.ok THEN Parsed(VStr(s.val), s.pos) ELSE ParseFail
         [] c = "{" ->
              LET j == SkipWs(txt, i + 1)
              IN IF At(txt, j) = "}" THEN Parsed(VDict(<<>>), j + 1)
                 ELSE ParseMembers(txt, j, <<>>)
         [] c = "[" ->
              LET j == SkipWs(txt, i + 1)
              IN IF At(txt, j) = "]" THEN Parsed(VList(<<>>), j + 1)
                 ELSE ParseElements(txt, j, <<>>)
         [] c = "null" -> Parsed(None, i + 1)
         [] c = "true" -> Parsed(VBool(TRUE), i + 1)
         [] c = "false" -> Parsed(VBool(FALSE), i + 1)
         [] c = "-" \/ c \in Digits -> ScanNumber(txt, i)
         [] OTHER -> ParseFail

\* json.loads(txt): one value, whitespace around it, nothing after it;
\* [ok, val], ok false standing for json.JSONDecodeError
json_loads(txt) ==
    LET v == ParseValue(txt, SkipWs(txt, 1))
    IN IF v.ok /\ SkipWs(txt, v.pos) = Len(txt) + 1
       THEN [ok |-> TRUE, val |-> v.val]
       ELSE [ok |-> FALSE, val |-> None]

----------------------------------------------------------------------------
(* The two regular expressions of the tolerant extraction *)

NoMatch == [found |-> FALSE, group |-> <<>>]
Match(g) == [found |-> TRUE, group |-> g]

\* the least index >= i that holds atom a, or 0
RECURSIVE IndexFrom(_, _, _)
IndexFrom(txt, a, i) ==
    IF i > Len(txt) THEN 0
    ELSE IF txt[i] = a THEN i
    ELSE IndexFrom(txt, a, i + 1)

\* the greatest index that holds atom a, or 0
RECURSIVE LastIndex(_, _, _)
LastIndex(txt, a, i) ==
    IF i < 1 THEN 0
    ELSE IF txt[i] = a THEN i
    ELSE LastIndex(txt, a, i - 1)

\* the start of the run of whitespace that ends just before index k, not
\* going below p
RECURSIVE WsRunStart(_, _, _)
WsRunStart(txt, p, k) ==
    IF k > p /\ txt[k - 1] \in Whitespace THEN WsRunStart(txt, p, k - 1) ELSE k

\* re.search(r'```(?:json)?\s*([\s\S]*?)\s*```', txt): the leftmost opening
\* fence that has a closing fence after it; the optional literal tag json
\* and the whitespace after it are consumed greedily, the group is the
\* shortest span that whitespace and a fence follow
FenceSearch(txt) ==
    LET i == IndexFrom(txt, Fence, 1)
        a == IF At(txt, i + 1) = "json" THEN i + 2 ELSE i + 1
        p == SkipWs(txt, a)
        k == IndexFrom(txt, Fence, p)
    IN IF i = 0 \/ k = 0 THEN NoMatch
       ELSE Match(SubSeq(txt, p, WsRunStart(txt, p, k) - 1))

\* re.search(r'({[\s\S]*})', txt): from the leftmost "{" that has a "}"
\* after it, greedily to the last "}" of the text
BraceSearch(txt) ==
    LET a == IndexFrom(txt, "{", 1)
        b == LastIndex(txt, "}", Len(txt))
    IN IF a = 0 \/ b < a THEN NoMatch
       ELSE Match(SubSeq(txt, a, b))

\* the handler giving an empty object where no candidate parses
ExtractFallback_EmptyDefault(txt, exc) ==
    LET f == FenceSearch(txt)
        b == BraceSearch(txt)
    IN IF f.found /\ json_loads(f.group).ok THEN Return(json_loads(f.group).val)
       ELSE IF ~f.found /\ b.found /\ json_loads(b.group).ok
       THEN Return(json_loads(b.group).val)
       ELSE Return(VDict(<<>>))

\* the body of the handler of json.JSONDecodeError, shared by the copies of
\* the extraction: a fenced match is parsed and its failure raises; only
\* with no fenced match is the brace match looked for
ExtractFallback(txt, exc) ==
    LET f == FenceSearch(txt)
        b == BraceSearch(txt)
    IN IF f.found
       THEN (IF json_loads(f.group).ok THEN Return(json_loads(f.group).val)
             ELSE Raise(exc))
       ELSE IF b.found
       THEN (IF json_loads(b.group).ok THEN Return(json_loads(b.group).val)
             ELSE Raise(exc))
       ELSE Raise(exc)

\* the fenced block and the brace scan consulted before the direct parse
parse_query_string_FallbackFirst(query_string) ==
    IF ExtractFallback(query_string, "ValueError").out = "return"
    THEN ExtractFallback(query_string, "ValueError")
    ELSE IF json_loads(query_string).ok THEN Return(json_loads(query_string).val)
    ELSE Raise("ValueError")

\* utils.query_utils.parse_query_string
parse_query_string(query_string) ==
    IF json_loads(query_string).ok THEN Return(json_loads(query_string).val)
    ELSE ExtractFallback(query_string, "ValueError")

\* ElasticsearchQueryGenerator.generate_query, from the model's response on:
\* every failure leaves as Exception("Error generating ...")
generate_query(content) ==
    IF json_loads(content).ok THEN Return(json_loads(content).val)
    ELSE ExtractFallback(content, "Exception")

\* the copy of fix_query without the brace scan: only the direct parse and
\* the fenced block
fix_query_NoBraceScan(content) ==
    IF json_loads(content).ok THEN Return(json_loads(content).val)
    ELSE IF FenceSearch(content).found /\ json_loads(FenceSearch(content).group).ok
    THEN Return(json_loads(FenceSearch(content).group).val)
    ELSE Raise("Exception")

\* ElasticsearchQueryGenerator.fix_query, from the model's response on
fix_query(content) ==
    IF json_loads(content).ok THEN Return(json_loads(content).val)
    ELSE ExtractFallback(content, "Exception")

\* ElasticsearchQueryGenerator.improve_query, from the model's response on
improve_query(content) ==
    IF json_loads(content).ok THEN Return(json_loads(content).val)
    ELSE ExtractFallback(content, "Exception")

----------------------------------------------------------------------------
(* ElasticsearchQueryValidator *)

VALID_TOP_LEVEL_KEYS ==
    {K(k) : k \in {"query", "from", "size", "sort", "aggs", "aggregations",
                   "_source", "fields", "script_fields", "stored_fields",
                   "highlight", "post_filter", "rescore", "explain", "version",
                   "track_total_hits", "min_score", "track_scores", "timeout",
                   "terminate_after", "search_after", "pit", "runtime_mappings"}}

VALID_QUERY_TYPES ==
    {K(k) : k \in {"match", "match_phrase", "match_phrase_prefix",
                   "match_bool_prefix", "multi_match", "term", "terms", "range",
                   "exists", "prefix", "wildcard", "regexp", "fuzzy", "ids",
                   "bool", "dis_max", "function_score", "boosting", "nested",
                   "has_child", "has_parent", "parent_id", "geo_shape",
                   "geo_bounding_box", "geo_distance", "geo_polygon",
                   "more_like_this", "script", "script_score", "wrapper",
                   "pinned", "distance_feature", "rank_feature", "percolate",
                   "intervals", "match_all", "match_none"}}

valid_bool_clauses ==
    {K(k) : k \in {"must", "must_not", "should", "filter",
                   "minimum_should_match", "boost"}}

\* the clause names whose body's keys are field names
FieldQueryTypes ==
    {K(k) : k \in {"term", "terms", "match", "match_phrase", "range", "exists",
                   "prefix", "wildcard", "regexp", "fuzzy"}}

\* [x for x in xs if x not in allowed]
RECURSIVE NotIn(_, _)
NotIn(xs, allowed) ==
    IF Len(xs) = 0 THEN <<>>
    ELSE (IF xs[1] \in allowed THEN <<>> ELSE <<xs[1]>>) \o NotIn(Tail(xs), allowed)

CommaSpace == <<",", " ">>

\* "'<name>' <rest>"
Quoted(name) == <<"'">> \o name \o <<"'">>

\* _validate_top_level_structure with `<= 0` in place of `< 0` for size
_validate_top_level_structure_PositiveSize(query_dict) ==
    LET unknown_keys == NotIn(Keys(query_dict), VALID_TOP_LEVEL_KEYS)
        BadPaging(k, least) ==
            /\ HasKey(query_dict, k)
            /\ \/ ~IsInstanceInt(Get(query_dict, k))
               \/ IntValue(Get(query_dict, k)) < least
    IN IF Len(unknown_keys) > 0
       THEN VStr(<<"Unknown top-level keys: ">> \o Join(unknown_keys, CommaSpace))
       ELSE IF BadPaging(K("size"), 1)
       THEN VStr(Quoted(K("size")) \o <<" must be a non-negative integer">>)
       ELSE IF BadPaging(K("from"), 0)
       THEN VStr(Quoted(K("from")) \o <<" must be a non-negative integer">>)
       ELSE None

\* _validate_top_level_structure reporting unknown_keys[0] alone
_validate_top_level_structure_FirstOnly(query_dict) ==
    LET unknown_keys == NotIn(Keys(query_dict), VALID_TOP_LEVEL_KEYS)
        BadPaging(k) ==
            /\ HasKey(query_dict, k)
            /\ \/ ~IsInstanceInt(Get(query_dict, k))
               \/ IntValue(Get(query_dict, k)) < 0
    IN IF Len(unknown_keys) > 0
       THEN VStr(<<"Unknown top-level keys: ">> \o unknown_keys[1])
       ELSE IF BadPaging(K("size"))
       THEN VStr(Quoted(K("size")) \o <<" must be a non-negative integer">>)
       ELSE IF BadPaging(K("from"))
       THEN VStr(Quoted(K("from")) \o <<" must be a non-negative integer">>)
       ELSE None

_validate_top_level_structure(query_dict) ==
    LET unknown_keys == NotIn(Keys(query_dict), VALID_TOP_LEVEL_KEYS)
        BadPaging(k) ==
            /\ HasKey(query_dict, k)
            /\ \/ ~IsInstanceInt(Get(query_dict, k))
               \/ IntValue(Get(query_dict, k)) < 0
    IN IF Len(unknown_keys) > 0
       THEN VStr(<<"Unknown top-level keys: ">> \o Join(unknown_keys, CommaSpace))
       ELSE IF BadPaging(K("size"))
       THEN VStr(Quoted(K("size")) \o <<" must be a non-negative integer">>)
       ELSE IF BadPaging(K("from"))
       THEN VStr(Quoted(K("from")) \o <<" must be a non-negative integer">>)
       ELSE None

\* the loop over the clause-bearing keys taken from filter back to must
BoolClauseOrder_Reversed == <<K("filter"), K("should"), K("must_not"), K("must")>>

\* the four clause-bearing keys of a bool query, in the order of the loop
BoolClauseOrder == <<K("must"), K("must_not"), K("should"), K("filter")>>

RECURSIVE _validate_query_structure(_)
RECURSIVE ValidateItems(_, _, _)
RECURSIVE ValidateBoolClauses(_, _)
\* the loop looking at clause_value[0] alone
ValidateItems_FirstOnly(clause, items, i) ==
    IF i > 1 \/ i > Len(items) THEN None
    ELSE LET item_error == _validate_query_structure(items[i])
         IN IF Truthy(item_error)
            THEN VStr(<<"Error in ">> \o Quoted(clause) \o <<" clause: ">> \o item_error.s)
            ELSE None
\* for item in clause_value: the first item error, prefixed with the clause
ValidateItems(clause, items, i) ==
    IF i > Len(items) THEN None
    ELSE LET item_error == _validate_query_structure(items[i])
         IN IF Truthy(item_error)
            THEN VStr(<<"Error in ">> \o Quoted(clause) \o <<" clause: ">> \o item_error.s)
            ELSE ValidateItems(clause, items, i + 1)
\* for clause in ["must", "must_not", "should", "filter"], from the i-th on
ValidateBoolClauses(bool_query, i) ==
    IF i > Len(BoolClauseOrder) THEN None
    ELSE LET clause == BoolClauseOrder[i]
         IN IF ~HasKey(bool_query, clause) THEN ValidateBoolClauses(bool_query, i + 1)
            ELSE LET clause_value == Get(bool_query, clause)
                     err == IF IsList(clause_value)
                            THEN ValidateItems(clause, clause_value.items, 1)
                            ELSE ValidateItems(clause, <<clause_value>>, 1)
                 IN IF ~(IsDict(clause_value) \/ IsList(clause_value))
                    THEN VStr(Quoted(clause) \o <<" clause must be a JSON object or array">>)
                    ELSE IF err # None THEN err
                    ELSE ValidateBoolClauses(bool_query, i + 1)
\* _validate_query_structure asking a nested body for its query before its path
_validate_query_structure_QueryBeforePath(query) ==
    IF ~IsDict(query) THEN VStr(Quoted(K("query")) \o <<" must be a JSON object">>)
    ELSE IF ~Truthy(query) THEN VStr(Quoted(K("query")) \o <<" cannot be empty">>)
    ELSE LET query_type == Keys(query)[1]
             body == Get(query, query_type)
         IN IF query_type = K("match_all") /\ (~Truthy(body) \/ body = VDict(<<>>))
            THEN None
            ELSE IF query_type \notin VALID_QUERY_TYPES
            THEN VStr(<<"Unknown query type: ">> \o query_type)
            ELSE IF query_type = K("bool")
            THEN (IF ~IsDict(body)
                  THEN VStr(Quoted(K("bool")) \o <<" query must be a JSON object">>)
                  ELSE IF Len(NotIn(Keys(body), valid_bool_clauses)) > 0
                  THEN VStr(<<"Unknown ">> \o Quoted(K("bool")) \o <<" clauses: ">>
                            \o Join(NotIn(Keys(body), valid_bool_clauses), CommaSpace))
                  ELSE ValidateBoolClauses(body, 1))
            ELSE IF query_type = K("nested")
            THEN (IF ~IsDict(body)
                  THEN VStr(Quoted(K("nested")) \o <<" query must be a JSON object">>)
                  ELSE IF ~HasKey(body, K("query"))
                  THEN VStr(Quoted(K("nested")) \o <<" query must have a ">>
                            \o Quoted(K("query")) \o <<" field">>)
                  ELSE IF ~HasKey(body, K("path"))
                  THEN VStr(Quoted(K("nested")) \o <<" query must have a ">>
                            \o Quoted(K("path")) \o <<" field">>)
                  ELSE LET query_error == _validate_query_structure(Get(body, K("query")))
                       IN IF Truthy(query_error)
                          THEN VStr(<<"Error in ">> \o Quoted(K("nested"))
                                    \o <<" query: ">> \o query_error.s)
                          ELSE None)
            ELSE None
\* _validate_query_structure looking at the sub-clauses of a bool body before
\* its keys
_validate_query_structure_ClausesBeforeKeys(query) ==
    IF ~IsDict(query) THEN VStr(Quoted(K("query")) \o <<" must be a JSON object">>)
    ELSE IF ~Truthy(query) THEN VStr(Quoted(K("query")) \o <<" cannot be empty">>)
    ELSE LET query_type == Keys(query)[1]
             body == Get(query, query_type)
         IN IF query_type = K("match_all") /\ (~Truthy(body) \/ body = VDict(<<>>))
            THEN None
            ELSE IF query_type \notin VALID_QUERY_TYPES
            THEN VStr(<<"Unknown query type: ">> \o query_type)
            ELSE IF query_type = K("bool")
            THEN (IF ~IsDict(body)
                  THEN VStr(Quoted(K("bool")) \o <<" query must be a JSON object">>)
                  ELSE IF ValidateBoolClauses(body, 1) # None
                  THEN ValidateBoolClauses(body, 1)
                  ELSE IF Len(NotIn(Keys(body), valid_bool_clauses)) > 0
                  THEN VStr(<<"Unknown ">> \o Quoted(K("bool")) \o <<" clauses: ">>
                            \o Join(NotIn(Keys(body), valid_bool_clauses), CommaSpace))
                  ELSE None)
            ELSE IF query_type = K("nested")
            THEN (IF ~IsDict(body)
                  THEN VStr(Quoted(K("nested")) \o <<" query must be a JSON object">>)
                  ELSE IF ~HasKey(body, K("path"))
                  THEN VStr(Quoted(K("nested")) \o <<" query must have a ">>
                            \o Quoted(K("path")) \o <<" field">>)
                  ELSE IF ~HasKey(body, K("query"))
                  THEN VStr(Quoted(K("nested")) \o <<" query must have a ">>
                            \o Quoted(K("query")) \o <<" field">>)
                  ELSE LET query_error == _validate_query_structure(Get(body, K("query")))
                       IN IF Truthy(query_error)
                          THEN VStr(<<"Error in ">> \o Quoted(K("nested"))
                                    \o <<" query: ">> \o query_error.s)
                          ELSE None)
            ELSE None
_validate_query_structure(query) ==
    IF ~IsDict(query) THEN VStr(Quoted(K("query")) \o <<" must be a JSON object">>)
    ELSE IF ~Truthy(query) THEN VStr(Quoted(K("query")) \o <<" cannot be empty">>)
    ELSE LET query_type == Keys(query)[1]
             body == Get(query, query_type)
         IN IF query_type = K("match_all") /\ (~Truthy(body) \/ body = VDict(<<>>))
            THEN None
            ELSE IF query_type \notin VALID_QUERY_TYPES
            THEN VStr(<<"Unknown query type: ">> \o query_type)
            ELSE IF query_type = K("bool")
            THEN (IF ~IsDict(body)
                  THEN VStr(Quoted(K("bool")) \o <<" query must be a JSON object">>)
                  ELSE IF Len(NotIn(Keys(body), valid_bool_clauses)) > 0
                  THEN VStr(<<"Unknown ">> \o Quoted(K("bool")) \o <<" clauses: ">>
                            \o Join(NotIn(Keys(body), valid_bool_clauses), CommaSpace))
                  ELSE ValidateBoolClauses(body, 1))
            ELSE IF query_type = K("nested")
            THEN (IF ~IsDict(body)
                  THEN VStr(Quoted(K("nested")) \o <<" query must be a JSON object">>)
                  ELSE IF ~HasKey(body, K("path"))
                  THEN VStr(Quoted(K("nested")) \o <<" query must have a ">>
                            \o Quoted(K("path")) \o <<" field">>)
                  ELSE IF ~HasKey(body, K("query"))
                  THEN VStr(Quoted(K("nested")) \o <<" query must have a ">>
                            \o Quoted(K("query")) \o <<" field">>)
                  ELSE LET query_error == _validate_query_structure(Get(body, K("query")))
                       IN IF Truthy(query_error)
                          THEN VStr(<<"Error in ">> \o Quoted(K("nested"))
                                    \o <<" query: ">> \o query_error.s)
                          ELSE None)
            ELSE None

\* what a helper that builds a set leaves: the set, or the exception that
\* ended it
Fields(names) == [exc |-> "", names |-> names]
FieldsRaise(e) == [exc |-> e, names |-> {}]

RECURSIVE MappingFields(_, _)
RECURSIVE MappingProperties(_, _, _, _)
RECURSIVE MappingOthers(_, _, _, _)
\* for field_name, field_def in obj["properties"].items(), from the i-th on
MappingProperties(prefix, kv, i, acc) ==
    IF i > Len(kv) THEN Fields(acc)
    ELSE LET full_name == prefix \o kv[i][1]
             field_def == kv[i][2]
             sub == MappingFields(full_name \o <<".">>, field_def)
         IN IF ~IsDict(field_def) THEN FieldsRaise("AttributeError")
            ELSE IF HasKey(field_def, K("properties"))
            THEN (IF sub.exc # "" THEN sub
                  ELSE MappingProperties(prefix, kv, i + 1,
                                         acc \cup {full_name} \cup sub.names))
            ELSE MappingProperties(prefix, kv, i + 1, acc \cup {full_name})
\* for key, value in obj.items(): the dict values under keys other than
\* "properties", from the i-th on
MappingOthers(prefix, kv, i, acc) ==
    IF i > Len(kv) THEN Fields(acc)
    ELSE IF kv[i][1] # K("properties") /\ IsDict(kv[i][2])
    THEN LET sub == MappingFields(prefix \o kv[i][1] \o <<".">>, kv[i][2])
         IN IF sub.exc # "" THEN sub
            ELSE MappingOthers(prefix, kv, i + 1, acc \cup sub.names)
    ELSE MappingOthers(prefix, kv, i + 1, acc)
\* extract_fields(prefix, obj) of _extract_field_names_from_mapping
MappingFields(prefix, obj) ==
    IF ~IsDict(obj) THEN Fields({})
    ELSE LET props ==
                 IF ~HasKey(obj, K("properties")) THEN Fields({})
                 ELSE IF ~IsDict(Get(obj, K("properties")))
                 THEN FieldsRaise("AttributeError")
                 ELSE MappingProperties(prefix, Get(obj, K("properties")).kv, 1, {})
         IN IF props.exc # "" THEN props
            ELSE MappingOthers(prefix, obj.kv, 1, props.names)

_extract_field_names_from_mapping(mapping) == MappingFields(<<>>, mapping)

\* the field kept whole, boost and all
BeforeCaret_Whole(field) == field

\* field.split("^")[0]
BeforeCaret(field) == SubSeq(field, 1, IndexFrom(field, "^", 1) - 1)

\* for field in fields, from the i-th on: a str is recorded without its
\* boost; `"^" in field` raises TypeError on a number, a bool or None,
\* field.split raises AttributeError on a list or dict that holds "^", and
\* set.add raises TypeError on any other list or dict
RECURSIVE MultiMatchFields(_, _, _)
MultiMatchFields(fields, i, acc) ==
    IF i > Len(fields) THEN Fields(acc)
    ELSE LET field == fields[i]
         IN IF IsStr(field)
            THEN MultiMatchFields(fields, i + 1,
                    acc \cup {IF IndexFrom(field.s, "^", 1) # 0
                              THEN BeforeCaret(field.s) ELSE field.s})
            ELSE IF IsList(field) /\ \E j \in 1..Len(field.items) : field.items[j] = VStr(K("^"))
            THEN FieldsRaise("AttributeError")
            ELSE IF IsDict(field) /\ HasKey(field, K("^"))
            THEN FieldsRaise("AttributeError")
            ELSE FieldsRaise("TypeError")

RECURSIVE QueryFields(_)
RECURSIVE QueryFieldsItems(_, _, _)
RECURSIVE QueryFieldsList(_, _, _)
\* for item in value: only a dict item adds anything (extract_fields
\* returns at once on a list)
QueryFieldsList(items, i, acc) ==
    IF i > Len(items) THEN Fields(acc)
    ELSE LET sub == QueryFields(items[i])
         IN IF sub.exc # "" THEN sub
            ELSE QueryFieldsList(items, i + 1, acc \cup sub.names)
\* for key, value in obj.items(), from the i-th on
QueryFieldsItems(kv, i, acc) ==
    IF i > Len(kv) THEN Fields(acc)
    ELSE LET key == kv[i][1]
             value == kv[i][2]
             sub == IF key \in FieldQueryTypes
                    THEN Fields(IF IsDict(value)
                                THEN {Keys(value)[j] : j \in 1..Len(value.kv)}
                                ELSE {})
                    ELSE IF key = K("multi_match") /\ IsDict(value)
                            /\ HasKey(value, K("fields"))
                    THEN (IF IsList(Get(value, K("fields")))
                          THEN MultiMatchFields(Get(value, K("fields")).items, 1, {})
                          ELSE Fields({}))
                    ELSE IF IsDict(value) THEN QueryFields(value)
                    ELSE IF IsList(value) THEN QueryFieldsList(value.items, 1, {})
                    ELSE Fields({})
         IN IF sub.exc # "" THEN sub
            ELSE QueryFieldsItems(kv, i + 1, acc \cup sub.names)
\* extract_fields(obj) of _extract_field_names_from_query
QueryFields(obj) ==
    IF ~IsDict(obj) THEN Fields({}) ELSE QueryFieldsItems(obj.kv, 1, {})

_extract_field_names_from_query(query_dict) == QueryFields(query_dict)

\* utils.query_utils.extract_fields_from_query: the same walk, after
\* parse_query_string when the query is a str
extract_fields_from_query(query) ==
    IF IsStr(query)
    THEN (IF parse_query_string(query.s).out = "raise" THEN FieldsRaise("ValueError")
          ELSE QueryFields(parse_query_string(query.s).val))
    ELSE QueryFields(query)

\* the orders in which a Python set of str may be iterated: any
Orders(set) ==
    {f \in [1..Cardinality(set) -> set] : \A i, j \in 1..Cardinality(set) : f[i] = f[j] => i = j}

\* the results _validate_against_mapping may give: None, a message that
\* lists the unknown fields in the order the set yields them, or a raise
_validate_against_mapping(mapping, query_dict) ==
    LET field_names == _extract_field_names_from_mapping(mapping)
        query_fields == _extract_field_names_from_query(query_dict)
        unknown == query_fields.names \ field_names.names
    IN IF ~Truthy(mapping) THEN {Return(None)}
       ELSE IF field_names.exc # "" THEN {Raise(field_names.exc)}
       ELSE IF query_fields.exc # "" THEN {Raise(query_fields.exc)}
       ELSE IF unknown = {} THEN {Return(None)}
       ELSE {Return(VStr(<<"Unknown fields in query: ">> \o Join(ord, CommaSpace))) :
                ord \in Orders(unknown)}

\* the tuple (is_valid, error) that validate returns
Outcome(valid, error) == Return([valid |-> valid, error |-> error])
Valid == Outcome(TRUE, None)
Invalid(msg) == Outcome(FALSE, msg)

\* ElasticsearchQueryValidator(mapping).validate(query): the set of its
\* possible outcomes (one, but for the order of the unknown fields)
validate(mapping, query) ==
    LET loaded == json_loads(query.s)
        query_dict == IF IsStr(query) THEN loaded.val ELSE query
        top_level_errors == _validate_top_level_structure(query_dict)
        query_errors == _validate_query_structure(Get(query_dict, K("query")))
    IN IF IsStr(query) /\ ~loaded.ok
       THEN {Invalid(VStr(<<"Invalid JSON: ", "<JSONDecodeError>">>))}
       ELSE IF ~IsDict(query_dict) THEN {Invalid(VStr(<<"Query must be a JSON object">>))}
       ELSE IF Truthy(top_level_errors) THEN {Invalid(top_level_errors)}
       ELSE IF HasKey(query_dict, K("query")) /\ Truthy(query_errors)
       THEN {Invalid(query_errors)}
       ELSE IF ~Truthy(mapping) THEN {Valid}
       ELSE {IF r.out = "raise" THEN r
             ELSE IF Truthy(r.val) THEN Invalid(r.val) ELSE Valid :
                r \in _validate_against_mapping(mapping, query_dict)}

----------------------------------------------------------------------------
(* Inputs of the extraction *)

MaxInt == 11
MaxItems == 2
MaxSegments == 2

\* all sequences over S of length at most n
SeqsUpTo(S, n) == UNION {[1..k -> S] : k \in 0..n}

SampleStrings ==
    { <<>>, <<"a">>, <<"{">>, <<"}">>, <<Fence>>, <<Quote>>, <<Backslash>>,
      <<"\n">>, <<"a", " ", "b">>,
      <<Fence, "{", Quote, "a", Quote, ":", "1", "}", Fence>>,
      <<"x", "{", Quote, "a", Quote, ":", "1", "}">>,
      <<Fence, "json", "\n", "2", "\n", Fence>> }

Scalars ==
    {None, VBool(TRUE), VBool(FALSE)}
    \cup {VInt(n) : n \in (-MaxInt)..MaxInt}
    \cup {VFloat(FALSE, 1, <<"5">>), VFloat(TRUE, 0, <<"2", "5">>),
          VFloat(FALSE, 10, <<"0">>)}
    \cup {VStr(s) : s \in SampleStrings}

SmallScalars ==
    {None, VBool(TRUE), VInt(1), VStr(<<"a">>), VStr(<<Fence, "{">>)}
SampleKeys == {<<"a">>, <<"b">>, <<Fence, "}">>}

DistinctKeys(kv) == \A i, j \in 1..Len(kv) : kv[i][1] = kv[j][1] => i = j

ListsOver(V) == {VList(items) : items \in SeqsUpTo(V, MaxItems)}
DictsOver(V) ==
    {VDict(kv) : kv \in {x \in SeqsUpTo(SampleKeys \X V, MaxItems) : DistinctKeys(x)}}

Containers == ListsOver(SmallScalars) \cup DictsOver(SmallScalars)
NestedContainers ==
    {VList(<<c>>) : c \in Containers}
    \cup {VDict(<< <<k, c>> >>) : k \in SampleKeys, c \in Containers}

\* the values json.dumps is applied to
Values == Scalars \cup Containers \cup NestedContainers

ObjA == VDict(<< <<K("a"), VInt(1)>> >>)
ObjB == VDict(<< <<K("b"), VDict(<< <<K("c"), VList(<<VInt(2)>>)>> >>)>> >>)
BadObj == <<"{", "bad", "}">>
BadWord == <<"bad">>
Interiors == {json_dumps(ObjA), json_dumps(ObjB), BadObj, BadWord}
Tags == {<<>>, <<"json">>, <<"python">>}
Pads == {<<>>, <<"\n">>}

FencedBlocks ==
    {<<Fence>> \o tag \o pad \o body \o pad \o <<Fence>> :
        tag \in Tags, pad \in Pads, body \in Interiors}
\* a fence that is opened and never closed
OpenBlocks == {<<Fence>> \o json_dumps(ObjA)}
Segments == FencedBlocks \cup OpenBlocks \cup Interiors

RECURSIVE SegmentTexts(_)
SegmentTexts(n) ==
    IF n = 0 THEN {<<>>}
    ELSE SegmentTexts(n - 1)
         \cup {t \o (IF Len(t) = 0 THEN <<>> ELSE <<" ", "then", " ">>) \o seg :
                 t \in SegmentTexts(n - 1), seg \in Segments}

\* what a language model may answer: prose, fenced blocks and bare objects
NoisyTexts ==
    {pre \o t \o post :
        pre \in {<<>>, <<"Sure", " ">>}, t \in SegmentTexts(MaxSegments),
        post \in {<<>>, <<" ", "done">>}}

----------------------------------------------------------------------------
(* The extraction as a state machine: a value is serialised (json.dumps)   *)
(* or a text arrives from the language model, then one of the copies of    *)
(* the extraction is applied to the text.                                  *)

\* the part of the model that a specification about another part leaves alone
IdleRecover ==
    r_pc = "off" /\ r_value = Absent /\ r_text = <<>> /\ r_fn = "none" /\ r_result = Absent
IdleValidate ==
    v_pc = "off" /\ v_query = Absent /\ v_mapping = Absent /\ v_result = Absent
\* ElasticsearchClient(...): no handle, no call made yet
IdleClient ==
    /\ client = None /\ index = None /\ handles = 0
    /\ c_op = "none" /\ c_arg = Absent /\ c_is_connected = Absent
    /\ c_result = Absent /\ c_requests = <<>>
    /\ c_connect = "none" /\ c_disconnected = FALSE
IdleExport ==
    /\ x_pretty_print = TRUE /\ x_query = Absent /\ x_format = Absent
    /\ x_op = "none" /\ x_result = Absent

\* the threads that serve requests on the one translator of the web interface
Threads == {"A", "B"}

\* NLQueryTranslator(): a validator built with no mapping, no database client
NewTranslator ==
    /\ query_validator = None
    /\ database_client = "none"
    /\ calls = 0
    /\ t_pc = [t \in Threads |-> "idle"]
    /\ t_query = [t \in Threads |-> Absent]
    /\ t_mapping = [t \in Threads |-> Absent]
    /\ t_branch = [t \in Threads |-> "none"]
    /\ t_result = [t \in Threads |-> Absent]
    /\ o_op = "none"
    /\ o_query = Absent
    /\ o_mapping = Absent
    /\ o_error_message = Absent
    /\ o_is_connected = Absent
    /\ o_consulted = FALSE
    /\ o_passed = Absent
    /\ o_forwarded = FALSE
    /\ o_result = Absent
    /\ validated = {}

InitRecover ==
    /\ IdleValidate
    /\ NewTranslator
    /\ IdleClient
    /\ IdleExport
    /\ r_fn = "none"
    /\ r_result = Absent
    /\ \/ r_pc = "value" /\ r_value \in Values /\ r_text = <<>>
       \/ r_pc = "text" /\ r_value = Absent /\ r_text \in NoisyTexts

JsonDumps ==
    /\ r_pc = "value"
    /\ r_text' = json_dumps(r_value)
    /\ r_pc' = "text"
    /\ UNCHANGED <<r_value, r_fn, r_result>>
    /\ UNCHANGED <<v_vars, t_vars, o_vars, c_vars, x_vars>>

ParseQueryString ==
    /\ r_pc = "text"
    /\ r_result' = parse_query_string(r_text)
    /\ r_fn' = "parse_query_string"
    /\ r_pc' = "done"
    /\ UNCHANGED <<r_value, r_text>>
    /\ UNCHANGED <<v_vars, t_vars, o_vars, c_vars, x_vars>>

GenerateQuery ==
    /\ r_pc = "text"
    /\ r_result' = generate_query(r_text)
    /\ r_fn' = "generate_query"
    /\ r_pc' = "done"
    /\ UNCHANGED <<r_value, r_text>>
    /\ UNCHANGED <<v_vars, t_vars, o_vars, c_vars, x_vars>>

FixQuery ==
    /\ r_pc = "text"
    /\ r_result' = fix_query(r_text)
    /\ r_fn' = "fix_query"
    /\ r_pc' = "done"
    /\ UNCHANGED <<r_value, r_text>>
    /\ UNCHANGED <<v_vars, t_vars, o_vars, c_vars, x_vars>>

ImproveQuery ==
    /\ r_pc = "text"
    /\ r_result' = improve_query(r_text)
    /\ r_fn' = "improve_query"
    /\ r_pc' = "done"
    /\ UNCHANGED <<r_value, r_text>>
    /\ UNCHANGED <<v_vars, t_vars, o_vars, c_vars, x_vars>>

NextRecover == JsonDumps \/ ParseQueryString \/ GenerateQuery \/ FixQuery \/ ImproveQuery

SpecRecover == InitRecover /\ [][NextRecover]_vars

----------------------------------------------------------------------------
(* Inputs of the validator *)

MaxTopKeys == 2
MaxBoolKeys == 2

Pair(k, v) == <<K(k), v>>
Dict1(k, v) == VDict(<<Pair(k, v)>>)
Text == VStr(K("x"))

Title == K("title")
Body == K("body")
UserName == <<"user", ".", "name">>
FieldNames == {Title, Body, UserName}

QMatch(f) == Dict1("match", VDict(<< <<f, Text>> >>))
UnknownClause == Dict1("unknown_clause", VDict(<<>>))
MatchAll == Dict1("match_all", VDict(<<>>))

MultiMatch(fields) ==
    Dict1("multi_match", VDict(<<Pair("query", Text), Pair("fields", VList(fields))>>))

LeafClauses ==
    {QMatch(f) : f \in FieldNames}
    \cup { MatchAll, UnknownClause,
           Dict1("match_all", VInt(5)),
           Dict1("match_all", None),
           Dict1("match_none", VDict(<<>>)),
           Dict1("term", VDict(<< <<Title, Text>>, <<Body, Text>> >>)),
           Dict1("range", VDict(<< <<K("date"), Dict1("gte", VInt(1))>> >>)),
           Dict1("exists", Dict1("field", VStr(Title))),
           Dict1("match", VStr(Title)),
           VDict(<<Pair("match", VDict(<< <<Title, Text>> >>)), Pair("zzz", VInt(1))>>),
           VDict(<<Pair("zzz", VInt(1)), Pair("match", VDict(<< <<Title, Text>> >>))>>),
           MultiMatch(<<VStr(<<"title", "^", "2">>), VStr(Body)>>),
           MultiMatch(<<VStr(Title)>>),
           MultiMatch(<<VInt(1)>>),
           MultiMatch(<<VStr(Title), VList(<<VStr(K("^"))>>)>>),
           Dict1("multi_match", Dict1("fields", VStr(Title))),
           VDict(<<>>), Text, VInt(5), None, VList(<<QMatch(Body)>>) }

\* what stands under must, must_not, should, filter
SubClauses == {QMatch(Title), QMatch(Body), UnknownClause, VDict(<<>>)}
BoolValues ==
    SubClauses \cup {VList(items) : items \in SeqsUpTo(SubClauses, MaxItems)} \cup {VInt(5)}
ClauseKeys == {K("must"), K("must_not"), K("should"), K("filter")}
\* the pairs bodies of several keys are made of
BoolPairs ==
    (ClauseKeys \X {QMatch(Body), UnknownClause, VList(<<VDict(<<>>)>>)})
    \cup {Pair("boost", VInt(1)), Pair("bogus", VInt(1)), Pair("other", QMatch(Body))}
BoolClauses ==
    {Dict1("bool", VDict(<< <<k, v>> >>)) : k \in ClauseKeys, v \in BoolValues}
    \cup {Dict1("bool", VDict(kv)) :
            kv \in {x \in SeqsUpTo(BoolPairs, MaxBoolKeys) : DistinctKeys(x)}}
    \cup {Dict1("bool", VInt(5)), Dict1("bool", VList(<<>>)),
          Dict1("bool", Dict1("minimum_should_match", VInt(1)))}

NestedClauses ==
    {Dict1("nested", VDict(<<Pair("path", VStr(K("user"))), Pair("query", c)>>)) :
        c \in SubClauses \cup {VDict(<<>>), VInt(5)}}
    \cup { Dict1("nested", Dict1("query", QMatch(UserName))),
           Dict1("nested", Dict1("path", VStr(K("user")))),
           Dict1("nested", VDict(<<>>)),
           Dict1("nested", VInt(5)) }

\* clauses two levels deep
DeepClauses ==
    {Dict1("bool", Dict1(k, VList(<<QMatch(Title), c>>))) :
        k \in {"must", "filter"},
        c \in { Dict1("bool", Dict1("must_not", UnknownClause)),
                Dict1("bool", Dict1("should", VList(<<QMatch(Body)>>))),
                Dict1("nested", VDict(<<Pair("path", VStr(K("user"))),
                                        Pair("query", QMatch(UserName))>>)),
                Dict1("nested", Dict1("query", QMatch(UserName))),
                VList(<<QMatch(Body)>>) }}

Clauses == LeafClauses \cup BoolClauses \cup NestedClauses \cup DeepClauses

PagingValues ==
    {VInt(0), VInt(3), VInt(-1), VBool(TRUE), VBool(FALSE), VFloat(FALSE, 1, <<"5">>),
     VFloat(FALSE, 2, <<"0">>), VStr(<<"1", "0">>), None, VDict(<<>>), VList(<<>>)}
TopPairs ==
    ({K("size"), K("from")} \X PagingValues)
    \cup {Pair("foo", VInt(1)), Pair("bar", VInt(1)), Pair("sort", VList(<<>>)),
          Pair("query", QMatch(Body)), Pair("query", UnknownClause),
          Pair("aggs", Dict1("by", Dict1("terms", Dict1("field", VStr(Title))))),
          Pair("post_filter", VList(<<VList(<<QMatch(Body)>>)>>))}

QueryDocs == {Dict1("query", c) : c \in Clauses}
TopDocs == {VDict(kv) : kv \in {x \in SeqsUpTo(TopPairs, MaxTopKeys) : DistinctKeys(x)}}
\* a query given as a str is parsed by validate; other values are no document
OtherDocs ==
    {VList(<<>>), VInt(1), None, VStr(K("abc")),
     VStr(json_dumps(Dict1("query", QMatch(Body)))),
     VStr(json_dumps(Dict1("foo", VInt(1)))),
     VStr(json_dumps(VList(<<>>)))}

Queries == QueryDocs \cup TopDocs \cup OtherDocs

TextField == Dict1("type", VStr(K("text")))
Properties(kv) == Dict1("properties", VDict(kv))
SchemaTitle == Properties(<< <<Title, TextField>> >>)
SchemaBody == Properties(<< <<Body, TextField>> >>)
SchemaUser ==
    Properties(<< <<Title, TextField>>,
                  <<K("user"), VDict(<<Pair("type", VStr(K("nested"))),
                                       Pair("properties", VDict(<< <<K("name"), TextField>> >>))>>)>> >>)
\* the shape ElasticsearchClient.get_mapping returns
SchemaFromIndex == Dict1("idx", Dict1("mappings", SchemaBody))

Mappings ==
    { None, VDict(<<>>), Properties(<<>>), SchemaTitle, SchemaBody, SchemaUser,
      SchemaFromIndex,
      Dict1("properties", VList(<<>>)),
      Dict1("properties", None),
      Properties(<< <<Title, VStr(K("text"))>> >>),
      Properties(<< <<Title, TextField>>, <<Body, None>> >>),
      Properties(<< <<Title, TextField>>, << <<>>, TextField>> >>),
      VStr(K("abc")), VList(<<>>), VInt(0) }

----------------------------------------------------------------------------
(* One call of the validator *)

InitValidate ==
    /\ IdleRecover
    /\ NewTranslator
    /\ IdleClient
    /\ IdleExport
    /\ v_pc = "call"
    /\ \/ v_query \in QueryDocs \cup OtherDocs /\ v_mapping \in Mappings
       \/ v_query \in TopDocs /\ v_mapping \in {None, VDict(<<>>), SchemaTitle}
    /\ v_result = Absent

Validate ==
    /\ v_pc = "call"
    /\ v_result' \in validate(v_mapping, v_query)
    /\ v_pc' = "done"
    /\ UNCHANGED <<v_query, v_mapping>>
    /\ UNCHANGED <<r_vars, t_vars, o_vars, c_vars, x_vars>>

NextValidate == Validate

SpecValidate == InitValidate /\ [][NextValidate]_vars

----------------------------------------------------------------------------
(* Calls of NLQueryTranslator.validate on the translator the web interface *)
(* shares between its request threads                                      *)

MaxCalls == 3

TranslatorQueries ==
    {Dict1("query", QMatch(Title)), Dict1("query", QMatch(Body)),
     Dict1("query", UnknownClause)}
\* the mapping argument: None when the caller gives none
TranslatorMappings == {None, SchemaTitle, SchemaBody}
\* what database_client.get_mapping() may return
IndexMappings == {SchemaFromIndex}

InitTranslator ==
    IdleRecover /\ IdleValidate /\ NewTranslator /\ IdleClient /\ IdleExport

\* translator.validate(query, mapping=mapping) is called
ValidateCall(t) ==
    /\ t_pc[t] \in {"idle", "done"}
    /\ calls < MaxCalls
    /\ calls' = calls + 1
    /\ \E query \in TranslatorQueries, mapping \in TranslatorMappings :
          /\ t_query' = [t_query EXCEPT ![t] = query]
          /\ t_mapping' = [t_mapping EXCEPT ![t] = mapping]
    /\ t_pc' = [t_pc EXCEPT ![t] = "if"]
    /\ t_branch' = [t_branch EXCEPT ![t] = "none"]
    /\ t_result' = [t_result EXCEPT ![t] = Absent]
    /\ UNCHANGED <<query_validator, database_client>>
    /\ UNCHANGED <<r_vars, v_vars, o_vars, c_vars, x_vars>>

\* mapping is None, the client is connected and get_mapping() returns: the
\* translator's validator is replaced by one built with that mapping
ValidateGetMapping(t) ==
    /\ t_pc[t] = "if"
    /\ t_mapping[t] = None
    /\ database_client = "connected"
    /\ \E mapping \in IndexMappings : query_validator' = mapping
    /\ t_branch' = [t_branch EXCEPT ![t] = "database"]
    /\ t_pc' = [t_pc EXCEPT ![t] = "return"]
    /\ UNCHANGED <<database_client, calls, t_query, t_mapping, t_result>>
    /\ UNCHANGED <<r_vars, v_vars, o_vars, c_vars, x_vars>>

\* mapping is None, the client is connected and get_mapping() raises: pass
ValidateGetMappingFails(t) ==
    /\ t_pc[t] = "if"
    /\ t_mapping[t] = None
    /\ database_client = "connected"
    /\ t_branch' = [t_branch EXCEPT ![t] = "database failed"]
    /\ t_pc' = [t_pc EXCEPT ![t] = "return"]
    /\ UNCHANGED <<query_validator, database_client, calls, t_query, t_mapping, t_result>>
    /\ UNCHANGED <<r_vars, v_vars, o_vars, c_vars, x_vars>>

\* mapping is not None: the translator's validator is replaced by one built
\* with the argument
ValidateWithMapping(t) ==
    /\ t_pc[t] = "if"
    /\ t_mapping[t] # None
    /\ query_validator' = t_mapping[t]
    /\ t_branch' = [t_branch EXCEPT ![t] = "argument"]
    /\ t_pc' = [t_pc EXCEPT ![t] = "return"]
    /\ UNCHANGED <<database_client, calls, t_query, t_mapping, t_result>>
    /\ UNCHANGED <<r_vars, v_vars, o_vars, c_vars, x_vars>>

\* mapping is None and there is no client, or is_connected() is False (the
\* client holds no handle, or holds one that does not answer): neither branch
ValidateNoMapping(t) ==
    /\ t_pc[t] = "if"
    /\ t_mapping[t] = None
    /\ t_branch' = [t_branch EXCEPT ![t] =
                        IF database_client = "connected" THEN "no answer" ELSE "none"]
    /\ t_pc' = [t_pc EXCEPT ![t] = "return"]
    /\ UNCHANGED <<query_validator, database_client, calls, t_query, t_mapping, t_result>>
    /\ UNCHANGED <<r_vars, v_vars, o_vars, c_vars, x_vars>>

\* return self.query_validator.validate(query): the validator the translator
\* holds at this moment is the one applied
ValidateReturn(t) ==
    /\ t_pc[t] = "return"
    /\ t_result' \in {[t_result EXCEPT ![t] = r] : r \in validate(query_validator, t_query[t])}
    /\ t_pc' = [t_pc EXCEPT ![t] = "done"]
    /\ UNCHANGED <<query_validator, database_client, calls, t_query, t_mapping, t_branch>>
    /\ UNCHANGED <<r_vars, v_vars, o_vars, c_vars, x_vars>>

\* set_database_client('elasticsearch', ...): a new client, not connected
SetDatabaseClient ==
    /\ database_client' = "disconnected"
    /\ UNCHANGED <<query_validator, calls, t_pc, t_query, t_mapping, t_branch, t_result>>
    /\ UNCHANGED <<r_vars, v_vars, o_vars, c_vars, x_vars>>

\* connect_to_database(): the client holds a handle when the connection test
\* passes and none when it raises
ConnectToDatabase ==
    /\ database_client # "none"
    /\ database_client' \in {"connected", "disconnected"}
    /\ UNCHANGED <<query_validator, calls, t_pc, t_query, t_mapping, t_branch, t_result>>
    /\ UNCHANGED <<r_vars, v_vars, o_vars, c_vars, x_vars>>

\* disconnect_from_database(): the handle is dropped, unless close() raises
DisconnectFromDatabase ==
    /\ database_client # "none"
    /\ database_client' \in {"disconnected", database_client}
    /\ UNCHANGED <<query_validator, calls, t_pc, t_query, t_mapping, t_branch, t_result>>
    /\ UNCHANGED <<r_vars, v_vars, o_vars, c_vars, x_vars>>

ValidateStep(t) ==
    \/ ValidateCall(t)
    \/ ValidateGetMapping(t)
    \/ ValidateGetMappingFails(t)
    \/ ValidateWithMapping(t)
    \/ ValidateNoMapping(t)
    \/ ValidateReturn(t)

DatabaseStep == SetDatabaseClient \/ ConnectToDatabase \/ DisconnectFromDatabase

\* the request threads of the web interface, interleaved
Next == (\E t \in Threads : ValidateStep(t)) \/ DatabaseStep

Spec == InitTranslator /\ [][Next]_vars

\* one caller, one call after the other
NextSeq == ValidateStep("A") \/ DatabaseStep

SpecSeq == InitTranslator /\ [][NextSeq]_vars

----------------------------------------------------------------------------
(* The operations of NLQueryTranslator, one call after the other           *)

\* the error_message argument of fix: None when the caller gives none
ErrorMessages == {None, VStr(<<>>), VStr(K("boom"))}
\* what the language model may answer
LlmResponses ==
    { json_dumps(Dict1("query", QMatch(Title))),
      json_dumps(Dict1("foo", VInt(1))),
      <<"Here: ", Fence, "json", "\n">> \o json_dumps(Dict1("query", QMatch(Body)))
          \o <<"\n", Fence>>,
      <<"sorry">> }
\* what each copy of the extraction makes of those answers
GenerateQueryResults == {generate_query(content) : content \in LlmResponses}
FixQueryResults == {fix_query(content) : content \in LlmResponses}
ImproveQueryResults == {improve_query(content) : content \in LlmResponses}
\* the outcomes of ElasticsearchQueryValidator(mapping).validate(query) for
\* the validators the translator may hold and the queries it is given
ValidatorOutcomes ==
    [mapping \in TranslatorMappings \cup IndexMappings, query \in TranslatorQueries |->
        validate(mapping, query)]
\* what database_client.execute_query may do once called
ExecuteQueryResults == {Return(Dict1("hits", VList(<<>>))), Raise("Exception")}

\* what database_client.is_connected() may tell: a client with no handle
\* says False, one with a handle says what the server's answer allows
IsConnected == IF database_client = "connected" THEN {TRUE, FALSE} ELSE {FALSE}

\* the local mapping after `if mapping is None and self.database_client and
\* self.database_client.is_connected(): try: mapping = get_mapping()`
FetchedMappings(mapping) ==
    IF mapping # None THEN {mapping}
    ELSE IF database_client = "connected" THEN IndexMappings \cup {None}
    ELSE {None}

\* self.validate(query, mapping) as a whole: the mapping of the validator the
\* translator holds afterwards, and the outcome
ValidateCalls(query, mapping) ==
    LET held == IF mapping # None THEN {mapping}
                ELSE IF database_client = "connected"
                THEN IndexMappings \cup {query_validator}
                ELSE {query_validator}
    IN UNION {{[query_validator |-> m, result |-> r] : r \in ValidatorOutcomes[m, query]} :
                 m \in held}

\* the fields of a call that does not use them
NoExecute == o_is_connected' = Absent /\ o_forwarded' = FALSE
NoFix == o_error_message' = Absent /\ o_consulted' = FALSE /\ o_passed' = Absent
OneMoreCall == calls < MaxCalls /\ calls' = calls + 1
ThreadsIdle == UNCHANGED <<t_pc, t_query, t_mapping, t_branch, t_result>>

\* translate(natural_language, mapping)
Translate ==
    /\ OneMoreCall
    /\ \E mapping \in TranslatorMappings, result \in GenerateQueryResults :
          /\ o_mapping' = mapping
          /\ o_result' = result
    /\ o_op' = "translate"
    /\ o_query' = Absent
    /\ NoExecute /\ NoFix
    /\ UNCHANGED <<query_validator, database_client, validated>>
    /\ ThreadsIdle
    /\ UNCHANGED <<r_vars, v_vars, c_vars, x_vars>>

\* validate(query, mapping)
TranslatorValidate ==
    /\ OneMoreCall
    /\ \E query \in TranslatorQueries, mapping \in TranslatorMappings :
          \E call \in ValidateCalls(query, mapping) :
              /\ o_query' = query
              /\ o_mapping' = mapping
              /\ query_validator' = call.query_validator
              /\ o_result' = call.result
              /\ validated' = IF call.result = Valid THEN validated \cup {query}
                              ELSE validated
    /\ o_op' = "validate"
    /\ NoExecute /\ NoFix
    /\ UNCHANGED database_client
    /\ ThreadsIdle
    /\ UNCHANGED <<r_vars, v_vars, c_vars, x_vars>>

\* fix(query, error_message, mapping)
Fix ==
    /\ OneMoreCall
    /\ \E query \in TranslatorQueries, error_message \in ErrorMessages,
          mapping \in TranslatorMappings, result \in FixQueryResults :
          /\ o_query' = query
          /\ o_mapping' = mapping
          /\ o_error_message' = error_message
          /\ IF error_message = None
             THEN \E fetched \in FetchedMappings(mapping) :
                  \E call \in ValidateCalls(query, fetched) :
                     /\ o_consulted' = TRUE
                     /\ query_validator' = call.query_validator
                     /\ validated' = IF call.result = Valid THEN validated \cup {query}
                                     ELSE validated
                     /\ IF call.result.out = "raise"
                        THEN o_passed' = Absent /\ o_result' = call.result
                        ELSE /\ o_passed' = IF ~call.result.val.valid
                                               /\ Truthy(call.result.val.error)
                                            THEN call.result.val.error ELSE None
                             /\ o_result' = result
             ELSE /\ o_consulted' = FALSE
                  /\ o_passed' = error_message
                  /\ o_result' = result
                  /\ UNCHANGED <<query_validator, validated>>
    /\ o_op' = "fix"
    /\ NoExecute
    /\ UNCHANGED database_client
    /\ ThreadsIdle
    /\ UNCHANGED <<r_vars, v_vars, c_vars, x_vars>>

\* improve(query, improvement_goal, mapping)
Improve ==
    /\ OneMoreCall
    /\ \E query \in TranslatorQueries, mapping \in TranslatorMappings,
          result \in ImproveQueryResults :
          /\ o_query' = query
          /\ o_mapping' = mapping
          /\ o_result' = result
    /\ o_op' = "improve"
    /\ NoExecute /\ NoFix
    /\ UNCHANGED <<query_validator, database_client, validated>>
    /\ ThreadsIdle
    /\ UNCHANGED <<r_vars, v_vars, c_vars, x_vars>>

\* execute with the query handed to execute_query whatever the client says
Execute_Unchecked ==
    /\ OneMoreCall
    /\ \E query \in TranslatorQueries, is_connected \in IsConnected,
          result \in ExecuteQueryResults :
          /\ o_query' = query
          /\ o_is_connected' = IF database_client = "none" THEN Absent
                               ELSE VBool(is_connected)
          /\ o_forwarded' = TRUE
          /\ o_result' = result
    /\ o_op' = "execute"
    /\ o_mapping' = Absent
    /\ NoFix
    /\ UNCHANGED <<query_validator, database_client, validated>>
    /\ ThreadsIdle
    /\ UNCHANGED <<r_vars, v_vars, c_vars, x_vars>>

\* execute(query)
Execute ==
    /\ OneMoreCall
    /\ \E query \in TranslatorQueries, is_connected \in IsConnected,
          result \in ExecuteQueryResults :
          /\ o_query' = query
          /\ IF database_client = "none"
             THEN /\ o_is_connected' = Absent
                  /\ o_forwarded' = FALSE
                  /\ o_result' = Raise("ValueError")
             ELSE IF ~is_connected
             THEN /\ o_is_connected' = VBool(FALSE)
                  /\ o_forwarded' = FALSE
                  /\ o_result' = Raise("ValueError")
             ELSE /\ o_is_connected' = VBool(TRUE)
                  /\ o_forwarded' = TRUE
                  /\ o_result' = result
    /\ o_op' = "execute"
    /\ o_mapping' = Absent
    /\ NoFix
    /\ UNCHANGED <<query_validator, database_client, validated>>
    /\ ThreadsIdle
    /\ UNCHANGED <<r_vars, v_vars, c_vars, x_vars>>

NextOps ==
    \/ Translate
    \/ TranslatorValidate
    \/ Fix
    \/ Improve
    \/ Execute
    \/ DatabaseStep

SpecOps == InitTranslator /\ [][NextOps]_vars

----------------------------------------------------------------------------
(* ElasticsearchClient: the handle it holds and the requests it sends      *)

MaxHandles == 3

\* an Elasticsearch object, the n-th one made
Handle(n) == [t |-> "Elasticsearch", n |-> n]
\* an exception with its message
RaiseMsg(e, msg) == [out |-> "raise", exc |-> e, msg |-> msg]
NotConnected == RaiseMsg("Exception", <<"Not connected to Elasticsearch">>)
NoIndex == RaiseMsg("Exception", <<"No index specified">>)

\* self.index and the index argument: None and "" are falsy
Indices == {None, VStr(<<>>), VStr(K("idx"))}
\* the query argument of execute_query: a dict, a str of JSON, another str
ClientQueries ==
    {Dict1("query", MatchAll), VStr(json_dumps(Dict1("query", MatchAll))),
     VStr(K("abc"))}
\* what the server may do with a search, a mapping or an alias request
SearchResponses ==
    {Return(Dict1("hits", VList(<<>>))),
     RaiseMsg("Exception", <<"Error executing Elasticsearch query: ", "<RequestError>">>),
     RaiseMsg("Exception", <<"Unexpected error executing Elasticsearch query: ",
                             "<Exception>">>)}
MappingResponses(index_name) ==
    {Return(SchemaFromIndex),
     RaiseMsg("Exception", <<"Index ">> \o Quoted(index_name.s) \o <<" not found">>),
     RaiseMsg("Exception", <<"Error getting mapping for index ">>
                               \o Quoted(index_name.s) \o <<": ", "<Exception>">>)}
AliasResponses ==
    {Return(VList(<<VStr(K("idx"))>>)),
     RaiseMsg("Exception", <<"Error listing indices: ", "<Exception>">>)}

\* is_connected(): with a handle, whether info() answers; False without one
is_connected(answers) == client # None /\ answers
\* the request is_connected() sends
InfoRequests == IF client # None THEN <<"info">> ELSE <<>>

\* what a method gives and the requests it sent
Did(result, requests) == [result |-> result, requests |-> requests]

\* execute_query asking for the index before it asks for the connection
execute_query_IndexFirst(query, answers, response) ==
    IF ~Truthy(index) THEN Did(NoIndex, <<>>)
    ELSE IF ~is_connected(answers) THEN Did(NotConnected, InfoRequests)
    ELSE IF IsStr(query) /\ ~json_loads(query.s).ok
    THEN Did(RaiseMsg("ValueError", <<"Invalid JSON query: ", "<JSONDecodeError>">>),
             InfoRequests)
    ELSE Did(response, InfoRequests \o <<"search">>)

execute_query(query, answers, response) ==
    IF ~is_connected(answers) THEN Did(NotConnected, InfoRequests)
    ELSE IF ~Truthy(index) THEN Did(NoIndex, InfoRequests)
    ELSE IF IsStr(query) /\ ~json_loads(query.s).ok
    THEN Did(RaiseMsg("ValueError", <<"Invalid JSON query: ", "<JSONDecodeError>">>),
             InfoRequests)
    ELSE Did(response, InfoRequests \o <<"search">>)

\* index or self.index
IndexName(index_arg) == IF Truthy(index_arg) THEN index_arg ELSE index

\* get_mapping(index): response is what indices.get_mapping does for the name
get_mapping(index_arg, answers, response) ==
    IF ~is_connected(answers) THEN Did(NotConnected, InfoRequests)
    ELSE IF ~Truthy(IndexName(index_arg)) THEN Did(NoIndex, InfoRequests)
    ELSE Did(response, InfoRequests \o <<"indices.get_mapping">>)

list_indices(answers, response) ==
    IF ~is_connected(answers) THEN Did(NotConnected, InfoRequests)
    ELSE Did(response, InfoRequests \o <<"indices.get_alias">>)

\* connect() leaving the handle it made in place when the test fails
Connect_KeepsHandle ==
    /\ handles < MaxHandles
    /\ \E made \in BOOLEAN, answers \in BOOLEAN :
          IF made
          THEN /\ client' = Handle(handles + 1)
               /\ handles' = handles + 1
               /\ c_requests' = <<"info">>
               /\ c_result' = IF answers THEN Return(VBool(TRUE))
                              ELSE RaiseMsg("Exception",
                                       <<"Error connecting to Elasticsearch: ", "<Exception>">>)
               /\ c_connect' = IF answers THEN "ok" ELSE "failed"
          ELSE /\ client' = None
               /\ UNCHANGED handles
               /\ c_requests' = <<>>
               /\ c_result' = RaiseMsg("Exception",
                                  <<"Error connecting to Elasticsearch: ", "<Exception>">>)
               /\ c_connect' = "failed"
    /\ c_disconnected' = FALSE
    /\ c_op' = "connect"
    /\ c_arg' = Absent
    /\ c_is_connected' = Absent
    /\ UNCHANGED index
    /\ UNCHANGED <<r_vars, v_vars, t_vars, o_vars, x_vars>>

\* connect(): Elasticsearch(**conn_params) makes a handle or raises, then
\* info() answers or raises; any raise clears self.client and is re-raised
Connect ==
    /\ handles < MaxHandles
    /\ \E made \in BOOLEAN, answers \in BOOLEAN :
          /\ handles' = IF made THEN handles + 1 ELSE handles
          /\ c_requests' = IF made THEN <<"info">> ELSE <<>>
          /\ IF made /\ answers
             THEN /\ client' = Handle(handles + 1)
                  /\ c_result' = Return(VBool(TRUE))
                  /\ c_connect' = "ok"
             ELSE /\ client' = None
                  /\ c_result' = RaiseMsg("Exception",
                                     <<"Error connecting to Elasticsearch: ", "<Exception>">>)
                  /\ c_connect' = "failed"
    /\ c_disconnected' = FALSE
    /\ c_op' = "connect"
    /\ c_arg' = Absent
    /\ c_is_connected' = Absent
    /\ UNCHANGED index
    /\ UNCHANGED <<r_vars, v_vars, t_vars, o_vars, x_vars>>

\* disconnect(): close() on the handle held, if any; the handle is dropped
\* when close() returns and kept when it raises
Disconnect ==
    /\ \E closes \in BOOLEAN :
          IF client # None
          THEN /\ c_requests' = <<"close">>
               /\ client' = IF closes THEN None ELSE client
               /\ c_result' = Return(VBool(closes))
               /\ c_disconnected' = (c_disconnected \/ closes)
          ELSE /\ c_requests' = <<>>
               /\ c_result' = Return(VBool(TRUE))
               /\ UNCHANGED <<client, c_disconnected>>
    /\ c_op' = "disconnect"
    /\ c_arg' = Absent
    /\ c_is_connected' = Absent
    /\ UNCHANGED <<index, handles, c_connect>>
    /\ UNCHANGED <<r_vars, v_vars, t_vars, o_vars, x_vars>>

\* is_connected()
ClientIsConnected ==
    /\ \E answers \in BOOLEAN :
          /\ c_result' = Return(VBool(is_connected(answers)))
          /\ c_is_connected' = VBool(is_connected(answers))
    /\ c_requests' = InfoRequests
    /\ c_op' = "is_connected"
    /\ c_arg' = Absent
    /\ UNCHANGED <<client, index, handles, c_connect, c_disconnected>>
    /\ UNCHANGED <<r_vars, v_vars, t_vars, o_vars, x_vars>>

\* set_index(index)
SetIndex ==
    /\ \E index_arg \in Indices :
          /\ index' = index_arg
          /\ c_arg' = index_arg
    /\ c_op' = "set_index"
    /\ c_is_connected' = Absent
    /\ c_result' = Return(None)
    /\ c_requests' = <<>>
    /\ UNCHANGED <<client, handles, c_connect, c_disconnected>>
    /\ UNCHANGED <<r_vars, v_vars, t_vars, o_vars, x_vars>>

\* execute_query(query)
ExecuteQuery ==
    /\ \E query \in ClientQueries, answers \in BOOLEAN, response \in SearchResponses :
          /\ c_arg' = query
          /\ c_is_connected' = VBool(is_connected(answers))
          /\ c_result' = execute_query(query, answers, response).result
          /\ c_requests' = execute_query(query, answers, response).requests
    /\ c_op' = "execute_query"
    /\ UNCHANGED <<client, index, handles, c_connect, c_disconnected>>
    /\ UNCHANGED <<r_vars, v_vars, t_vars, o_vars, x_vars>>

\* get_mapping(index)
GetMapping ==
    /\ \E index_arg \in Indices, answers \in BOOLEAN :
       \E response \in MappingResponses(IF Truthy(IndexName(index_arg))
                                        THEN IndexName(index_arg) ELSE VStr(<<>>)) :
          /\ c_arg' = index_arg
          /\ c_is_connected' = VBool(is_connected(answers))
          /\ c_result' = get_mapping(index_arg, answers, response).result
          /\ c_requests' = get_mapping(index_arg, answers, response).requests
    /\ c_op' = "get_mapping"
    /\ UNCHANGED <<client, index, handles, c_connect, c_disconnected>>
    /\ UNCHANGED <<r_vars, v_vars, t_vars, o_vars, x_vars>>

\* list_indices()
ListIndices ==
    /\ \E answers \in BOOLEAN, response \in AliasResponses :
          /\ c_is_connected' = VBool(is_connected(answers))
          /\ c_result' = list_indices(answers, response).result
          /\ c_requests' = list_indices(answers, response).requests
    /\ c_op' = "list_indices"
    /\ c_arg' = Absent
    /\ UNCHANGED <<client, index, handles, c_connect, c_disconnected>>
    /\ UNCHANGED <<r_vars, v_vars, t_vars, o_vars, x_vars>>

NextClient ==
    \/ Connect
    \/ Disconnect
    \/ ClientIsConnected
    \/ SetIndex
    \/ ExecuteQuery
    \/ GetMapping
    \/ ListIndices

SpecClient == InitTranslator /\ [][NextClient]_vars

----------------------------------------------------------------------------
(* QueryExporter and NLQueryTranslator.export, with no file to write to    *)

\* the members of the enumeration ExportFormat
ExportFormat_JSON == [t |-> "ExportFormat", name |-> "JSON"]
ExportFormat_TEXT == [t |-> "ExportFormat", name |-> "TEXT"]

\* "\n" and the indentation of a line at the given depth, for indent=2
NewlineIndent(level) == <<"\n">> \o [i \in 1..(2 * level) |-> " "]

\* json.dumps(v, indent=2): a list or dict that is not empty has each of its
\* items on a line of its own, the lines separated by "," alone
RECURSIVE json_dumps_indent(_, _)
RECURSIVE DumpsItemsIndent(_, _)
RECURSIVE DumpsMembersIndent(_, _)
DumpsItemsIndent(items, level) ==
    IF Len(items) = 0 THEN <<>>
    ELSE json_dumps_indent(items[1], level)
         \o (IF Len(items) > 1 THEN <<",">> \o NewlineIndent(level) ELSE <<>>)
         \o DumpsItemsIndent(Tail(items), level)
DumpsMembersIndent(kv, level) ==
    IF Len(kv) = 0 THEN <<>>
    ELSE DumpsStr(kv[1][1]) \o <<":", " ">> \o json_dumps_indent(kv[1][2], level)
         \o (IF Len(kv) > 1 THEN <<",">> \o NewlineIndent(level) ELSE <<>>)
         \o DumpsMembersIndent(Tail(kv), level)
json_dumps_indent(v, level) ==
    IF IsList(v) /\ Len(v.items) > 0
    THEN <<"[">> \o NewlineIndent(level + 1) \o DumpsItemsIndent(v.items, level + 1)
         \o NewlineIndent(level) \o <<"]">>
    ELSE IF IsDict(v) /\ Len(v.kv) > 0
    THEN <<"{">> \o NewlineIndent(level + 1) \o DumpsMembersIndent(v.kv, level + 1)
         \o NewlineIndent(level) \o <<"}">>
    ELSE json_dumps(v)

\* json.dumps(v, indent=2 if self.pretty_print else None)
ExportDumps(pretty_print, v) ==
    IF pretty_print THEN json_dumps_indent(v, 0) ELSE json_dumps(v)

\* QueryExporter.export_to_json: a str is parsed first, and must parse
export_to_json(pretty_print, query) ==
    IF IsStr(query) /\ ~json_loads(query.s).ok THEN Raise("ValueError")
    ELSE Return(VStr(ExportDumps(pretty_print,
                        IF IsStr(query) THEN json_loads(query.s).val ELSE query)))

\* QueryExporter.export_to_text: a dict is serialised, a str is returned as is
export_to_text(pretty_print, query) ==
    IF IsDict(query) THEN Return(VStr(ExportDumps(pretty_print, query)))
    ELSE Return(query)

\* QueryExporter.export: format is compared with the two members
export(pretty_print, query, format) ==
    IF format = ExportFormat_JSON THEN export_to_json(pretty_print, query)
    ELSE IF format = ExportFormat_TEXT THEN export_to_text(pretty_print, query)
    ELSE Raise("ValueError")

\* str.upper() on the names a format is given by
Upper(s) ==
    [i \in 1..Len(s) |-> CASE s[i] = "json" -> "JSON"
                           [] s[i] = "text" -> "TEXT"
                           [] OTHER -> s[i]]

\* NLQueryTranslator.export: a str format is upper-cased and turned into
\* the member it names before QueryExporter.export is called
translator_export(query, format, pretty) ==
    IF IsStr(format)
    THEN (IF Upper(format.s) = K("JSON") THEN export(pretty, query, ExportFormat_JSON)
          ELSE IF Upper(format.s) = K("TEXT") THEN export(pretty, query, ExportFormat_TEXT)
          ELSE Raise("ValueError"))
    ELSE export(pretty, query, format)

\* the format argument: a member, or a name as a str
FormatNames == {VStr(K("JSON")), VStr(K("TEXT")), VStr(K("json")), VStr(K("INVALID_FORMAT"))}
ExportFormats == {ExportFormat_JSON, ExportFormat_TEXT} \cup FormatNames
\* the query argument: a dict, a str of JSON, a str that is not JSON
ExportQueries ==
    {Dict1("query", QMatch(Title)), Dict1("query", MatchAll), VDict(<<>>),
     VDict(<<Pair("query", MatchAll), Pair("sort", VList(<<VInt(1), VDict(<<>>)>>))>>),
     VStr(json_dumps(Dict1("query", QMatch(Title)))), VStr(<<"{", "bad">>)}

InitExport ==
    /\ IdleRecover /\ IdleValidate /\ NewTranslator /\ IdleClient
    /\ x_pretty_print \in BOOLEAN
    /\ x_query \in ExportQueries
    /\ x_format \in ExportFormats
    /\ x_op = "none"
    /\ x_result = Absent

\* QueryExporter(pretty_print).export(query, format)
Export ==
    /\ x_op = "none"
    /\ x_result' = export(x_pretty_print, x_query, x_format)
    /\ x_op' = "QueryExporter.export"
    /\ UNCHANGED <<x_pretty_print, x_query, x_format>>
    /\ UNCHANGED <<r_vars, v_vars, t_vars, o_vars, c_vars>>

\* NLQueryTranslator.export(query, format, pretty=pretty): pretty replaces
\* the exporter's pretty_print
TranslatorExport ==
    /\ x_op = "none"
    /\ \E pretty \in BOOLEAN :
          /\ x_pretty_print' = pretty
          /\ x_result' = translator_export(x_query, x_format, pretty)
    /\ x_op' = "NLQueryTranslator.export"
    /\ UNCHANGED <<x_query, x_format>>
    /\ UNCHANGED <<r_vars, v_vars, t_vars, o_vars, c_vars>>

NextExport == Export \/ TranslatorExport

SpecExport == InitExport /\ [][NextExport]_vars

----------------------------------------------------------------------------
(* Claims about the tolerant extraction (recover) *)

RecoverDone == r_pc = "done"
DirectOk(txt) == json_loads(txt).ok
FenceOk(txt) == FenceSearch(txt).found /\ json_loads(FenceSearch(txt).group).ok
BraceOk(txt) == BraceSearch(txt).found /\ json_loads(BraceSearch(txt).group).ok

\* the value of the first strategy, in the order direct parse, fenced block,
\* brace scan, whose candidate parses
FirstSuccess(txt) ==
    IF DirectOk(txt) THEN json_loads(txt).val
    ELSE IF FenceOk(txt) THEN json_loads(FenceSearch(txt).group).val
    ELSE json_loads(BraceSearch(txt).group).val

\* C7: the strategies are tried in the order direct parse, fenced block,
\* brace scan; the call returns the value of the first one whose candidate
\* parses, a candidate that fails to parse does not end the search, and the
\* call fails only when all three fail.
C7_FirstSuccessWins ==
    RecoverDone =>
        IF DirectOk(r_text) \/ FenceOk(r_text) \/ BraceOk(r_text)
        THEN r_result = Return(FirstSuccess(r_text))
        ELSE r_result.out = "raise"

\* the index of the "}" that closes the "{" at index a: braces are counted
\* outside string literals; 0 when the text ends first
RECURSIVE MatchingBrace(_, _, _, _)
MatchingBrace(txt, i, depth, instr) ==
    IF i > Len(txt) THEN 0
    ELSE IF instr
         THEN (IF txt[i] = Backslash THEN MatchingBrace(txt, i + 2, depth, TRUE)
               ELSE MatchingBrace(txt, i + 1, depth, txt[i] # Quote))
    ELSE IF txt[i] = Quote THEN MatchingBrace(txt, i + 1, depth, TRUE)
    ELSE IF txt[i] = "{" THEN MatchingBrace(txt, i + 1, depth + 1, FALSE)
    ELSE IF txt[i] = "}"
         THEN (IF depth = 1 THEN i ELSE MatchingBrace(txt, i + 1, depth - 1, FALSE))
    ELSE MatchingBrace(txt, i + 1, depth, FALSE)

\* the span from the first "{" to the "}" that structurally matches it
FirstBalancedSpan(txt) ==
    LET a == IndexFrom(txt, "{", 1)
        b == IF a = 0 THEN 0 ELSE MatchingBrace(txt, a + 1, 1, FALSE)
    IN IF a = 0 \/ b = 0 THEN NoMatch ELSE Match(SubSeq(txt, a, b))

\* C8: a text that is not directly parseable and has no fenced block: the
\* brace scan takes the span from the first "{" to its structurally matching
\* "}", not to the last "}" of the text, so with several objects separated
\* by prose the call returns the first object.
C8_BraceScanTakesFirstObject ==
    (/\ RecoverDone
     /\ ~DirectOk(r_text)
     /\ ~FenceSearch(r_text).found
     /\ FirstBalancedSpan(r_text).found
     /\ json_loads(FirstBalancedSpan(r_text).group).ok)
    => r_result = Return(json_loads(FirstBalancedSpan(r_text).group).val)

\* the words that may follow an opening fence as its language tag
LanguageTags == {"json", "python"}

\* the interior of the leftmost fenced block: what lies between the first
\* fence and the next one, without the language tag and the whitespace
\* around it
FencedInterior(txt) ==
    LET i == IndexFrom(txt, Fence, 1)
        k == IndexFrom(txt, Fence, i + 1)
        a == IF At(txt, i + 1) \in LanguageTags THEN i + 2 ELSE i + 1
        p == SkipWs(txt, a)
    IN IF i = 0 \/ k = 0 THEN NoMatch
       ELSE Match(SubSeq(txt, p, WsRunStart(txt, p, k) - 1))

\* C9: a text that is not directly parseable and holds fenced blocks, with
\* or without a language tag after the opening fence: the interior of the
\* leftmost block (tag and surrounding whitespace excluded) is parsed and
\* the call returns that value.
C9_LeftmostFencedBlock ==
    (/\ RecoverDone
     /\ ~DirectOk(r_text)
     /\ FencedInterior(r_text).found
     /\ json_loads(FencedInterior(r_text).group).ok)
    => r_result = Return(json_loads(FencedInterior(r_text).group).val)

\* C10: recover(serialize(v)) = v for every value v, whatever fences or
\* braces its strings hold: the direct parse wins.
C10_RoundTrip ==
    (RecoverDone /\ r_value # Absent) => r_result = Return(r_value)

\* a str value holding a whole fenced block was serialised and recovered
C10_Witness ==
    /\ RecoverDone
    /\ r_fn = "parse_query_string"
    /\ r_value = VStr(<<Fence, "{", Quote, "a", Quote, ":", "1", "}", Fence>>)
    /\ r_result = Return(r_value)

\* the values the strategies yield on a text: the parse of each candidate
\* that parses
StrategyValues(txt) ==
    {json_loads(c).val :
        c \in {x \in {txt} \cup {m.group : m \in {y \in {FenceSearch(txt), BraceSearch(txt),
                                                        FencedInterior(txt),
                                                        FirstBalancedSpan(txt)} : y.found}} :
                  json_loads(x).ok}}

\* C11: when no strategy yields a parseable value (not the whole text, not
\* the leftmost fenced block, not the brace scan) each extraction function
\* raises; and whatever a function returns is the parse of one of the
\* candidates, never an empty, default or partial value.
C11_FailureIsRaised ==
    RecoverDone =>
        /\ StrategyValues(r_text) = {} => r_result.out = "raise"
        /\ r_result.out = "return" => r_result.val \in StrategyValues(r_text)

\* improve_query was given a text whose only candidate, a brace span, does
\* not parse
C11_Witness ==
    /\ RecoverDone
    /\ r_fn = "improve_query"
    /\ ~FenceSearch(r_text).found
    /\ BraceSearch(r_text).found
    /\ StrategyValues(r_text) = {}
    /\ r_result = Raise("Exception")

----------------------------------------------------------------------------
(* Claims about validate                                                   *)

ValidateDone == v_pc = "done"
\* whether the argument is, or as a str parses to, a JSON object
IsDocument(q) ==
    IF IsStr(q) THEN json_loads(q.s).ok /\ IsDict(json_loads(q.s).val) ELSE IsDict(q)
\* the document validate works on: a str argument is parsed first
Document(q) == IF IsStr(q) THEN json_loads(q.s).val ELSE q
UnknownTopLevelKeys(doc) == NotIn(Keys(doc), VALID_TOP_LEVEL_KEYS)

\* the clauses directly under a clause: what stands under the four
\* clause-bearing keys of a bool body (each item of an array), and the query
\* of a nested body
ClausesUnder(c) ==
    LET type == Keys(c)[1]
        body == Get(c, type)
    IN IF type = K("bool") /\ IsDict(body)
       THEN UNION {IF IsList(Get(body, k))
                   THEN {Get(body, k).items[i] : i \in 1..Len(Get(body, k).items)}
                   ELSE {Get(body, k)} :
                      k \in {x \in ClauseKeys : HasKey(body, x)}}
       ELSE IF type = K("nested") /\ IsDict(body) /\ HasKey(body, K("query"))
       THEN {Get(body, K("query"))}
       ELSE {}

\* every clause, at any depth, is a non-empty Object whose type is known
RECURSIVE ClauseTypesKnown(_)
ClauseTypesKnown(c) ==
    /\ IsDict(c) /\ Truthy(c)
    /\ Keys(c)[1] \in VALID_QUERY_TYPES
    /\ \A sub \in ClausesUnder(c) : ClauseTypesKnown(sub)

\* C1 as stated: a document validated with no schema, whose top-level keys
\* are all in TopLevelKeys and whose clauses all have a type in ClauseTypes,
\* is valid
C1_KnownKeysAndTypesValid ==
    ( /\ ValidateDone
      /\ v_mapping = None
      /\ IsDocument(v_query)
      /\ UnknownTopLevelKeys(Document(v_query)) = <<>>
      /\ HasKey(Document(v_query), K("query"))
            => ClauseTypesKnown(Get(Document(v_query), K("query"))) )
    => v_result = Valid

\* a paging value the grammar accepts: an integer, not negative
PagingOk(doc, k) ==
    HasKey(doc, k) => (Get(doc, k).t = "int" /\ Get(doc, k).n >= 0)

\* a clause the grammar of section 4.3 accepts: a non-empty Object of a known
\* type; a bool body is an Object with sub-keys of BoolSubClauses, each
\* clause-bearing one holding a clause or an array of clauses; a nested body
\* is an Object with a path and a query that is such a clause
RECURSIVE WellFormedClause(_)
WellFormedClause(c) ==
    /\ IsDict(c) /\ Truthy(c)
    /\ Keys(c)[1] \in VALID_QUERY_TYPES
    /\ LET type == Keys(c)[1]
           body == Get(c, type)
       IN /\ type = K("bool") =>
                /\ IsDict(body)
                /\ NotIn(Keys(body), valid_bool_clauses) = <<>>
                /\ \A k \in ClauseKeys :
                      HasKey(body, k) => (IsDict(Get(body, k)) \/ IsList(Get(body, k)))
          /\ type = K("nested") =>
                /\ IsDict(body)
                /\ HasKey(body, K("path"))
                /\ HasKey(body, K("query"))
    /\ \A sub \in ClausesUnder(c) : WellFormedClause(sub)

WellFormedDocument(doc) ==
    /\ UnknownTopLevelKeys(doc) = <<>>
    /\ PagingOk(doc, K("size"))
    /\ PagingOk(doc, K("from"))
    /\ HasKey(doc, K("query")) => WellFormedClause(Get(doc, K("query")))

\* C1, amended: a document validated with no schema is valid when its
\* top-level keys are all in TopLevelKeys, its paging values are
\* non-negative integers, and every clause is a non-empty Object of a type in
\* ClauseTypes whose bool and nested bodies have the shape the grammar asks
C1_WellFormedValid ==
    (ValidateDone /\ v_mapping = None /\ IsDocument(v_query)
        /\ WellFormedDocument(Document(v_query)))
    => v_result = Valid

C1_Witness ==
    /\ ValidateDone
    /\ v_mapping = None
    /\ v_query = VDict(<<Pair("size", VInt(0)), Pair("query", QMatch(Body))>>)
    /\ v_result = Valid

\* C2: a document with top-level keys outside TopLevelKeys is invalid, and
\* the one error message contains every one of those keys
C2_UnknownKeysAllReported ==
    (ValidateDone /\ IsDocument(v_query)
        /\ UnknownTopLevelKeys(Document(v_query)) # <<>>)
    => /\ v_result.out = "return"
       /\ ~v_result.val.valid
       /\ IsStr(v_result.val.error)
       /\ \A i \in 1..Len(UnknownTopLevelKeys(Document(v_query))) :
             Contains(v_result.val.error.s, UnknownTopLevelKeys(Document(v_query))[i])

C2_Witness ==
    /\ ValidateDone
    /\ IsDocument(v_query)
    /\ Len(UnknownTopLevelKeys(Document(v_query))) = 2
    /\ v_result.out = "return"
    /\ ~v_result.val.valid
    /\ Contains(v_result.val.error.s, K("foo"))
    /\ Contains(v_result.val.error.s, K("bar"))

\* the query passes the structural validator
StructurallyValid(q) == validate(None, q) = {Valid}
\* the referenced paths that the flattened schema lacks
AbsentPaths(mapping, doc) ==
    _extract_field_names_from_query(doc).names
        \ _extract_field_names_from_mapping(mapping).names

\* C3: for a structurally valid query and a supplied schema Object (one the
\* flattener and the extractor get through), validate returns valid exactly
\* when every referenced field path is in the SchemaIndex, and otherwise an
\* error that names each absent path
C3_ConformanceExact ==
    ( /\ ValidateDone
      /\ IsDocument(v_query)
      /\ StructurallyValid(v_query)
      /\ IsDict(v_mapping)
      /\ _extract_field_names_from_mapping(v_mapping).exc = ""
      /\ _extract_field_names_from_query(Document(v_query)).exc = "" )
    => /\ v_result.out = "return"
       /\ v_result.val.valid <=> AbsentPaths(v_mapping, Document(v_query)) = {}
       /\ ~v_result.val.valid =>
             \A path \in AbsentPaths(v_mapping, Document(v_query)) :
                Contains(v_result.val.error.s, path)

\* C6: validate is total: whatever the query and the schema, the call
\* returns a ValidationOutcome and raises nothing
C6_ValidateTotal ==
    ValidateDone => v_result.out = "return"

----------------------------------------------------------------------------
(* Claims about NLQueryTranslator.validate                                 *)

\* C4: the outcome of a call depends on its arguments alone: whatever calls
\* came before, a call with no schema, made while no database client is
\* connected, gives what structural validation alone gives
C4_NoSchemaCarriedOver ==
    \A t \in Threads :
        (t_pc[t] = "done" /\ t_mapping[t] = None /\ t_branch[t] = "none")
        => t_result[t] \in validate(None, t_query[t])

\* C5: calls that run concurrently on the shared translator, each with its
\* own schema and no database client in play, each give what validating
\* their own query against their own schema gives, in every interleaving
C5_ConcurrentCallsIndependent ==
    \A t \in Threads :
        (t_pc[t] = "done" /\ t_mapping[t] # None /\ database_client = "none")
        => t_result[t] \in validate(t_mapping[t], t_query[t])

\* the fixed priority of the clause-bearing sub-keys of a boolean composition
PriorityOrder == <<K("must"), K("must_not"), K("should"), K("filter")>>
\* the clauses under one sub-key: the elements of an array, or the one clause
ClauseItems(value) == IF IsList(value) THEN value.items ELSE <<value>>
\* where a boolean body goes wrong: <<i, j>> when the j-th clause under the
\* i-th sub-key of the priority order is invalid, <<i, 0>> when what stands
\* under that sub-key is neither an Object nor an Array
BoolErrors(body) ==
    {p \in (1..Len(PriorityOrder)) \X (0..Len(body.kv) + MaxItems + 1) :
        /\ HasKey(body, PriorityOrder[p[1]])
        /\ LET value == Get(body, PriorityOrder[p[1]])
           IN IF IsDict(value) \/ IsList(value)
              THEN /\ p[2] \in 1..Len(ClauseItems(value))
                   /\ _validate_query_structure(ClauseItems(value)[p[2]]) # None
              ELSE p[2] = 0}
\* the first of them: least sub-key in the priority order, then least index
FirstBoolError(body) ==
    CHOOSE p \in BoolErrors(body) :
        \A q \in BoolErrors(body) : p[1] < q[1] \/ (p[1] = q[1] /\ p[2] <= q[2])
\* the message that reports it
BoolErrorMessage(body) ==
    LET p == FirstBoolError(body)
        clause == PriorityOrder[p[1]]
    IN IF p[2] = 0
       THEN Quoted(clause) \o <<" clause must be a JSON object or array">>
       ELSE <<"Error in ">> \o Quoted(clause) \o <<" clause: ">>
            \o _validate_query_structure(ClauseItems(Get(body, clause))[p[2]]).s

\* the document's query is a boolean composition whose body passes the
\* checks that come before its sub-clauses
IsBoolQuery(doc) ==
    /\ _validate_top_level_structure(doc) = None
    /\ HasKey(doc, K("query"))
    /\ IsDict(Get(doc, K("query"))) /\ Truthy(Get(doc, K("query")))
    /\ Keys(Get(doc, K("query")))[1] = K("bool")
    /\ IsDict(Get(Get(doc, K("query")), K("bool")))
    /\ NotIn(Keys(Get(Get(doc, K("query")), K("bool"))), valid_bool_clauses) = <<>>
BoolBody(doc) == Get(Get(doc, K("query")), K("bool"))

\* C12: in a boolean composition the error reported is the first sub-clause
\* error in the order must, must_not, should, filter (whatever the order of
\* the keys in the input), and within an array in array order.
C12_BoolPriorityOrder ==
    (ValidateDone /\ IsDocument(v_query) /\ IsBoolQuery(Document(v_query))
        /\ BoolErrors(BoolBody(Document(v_query))) # {})
    => v_result = Invalid(VStr(BoolErrorMessage(BoolBody(Document(v_query)))))

\* must_not precedes must in the input, both hold an invalid clause, and the
\* error of must is the one reported
C12_Witness ==
    /\ ValidateDone
    /\ v_query = Dict1("query", Dict1("bool",
                    VDict(<<Pair("must_not", UnknownClause),
                            Pair("must", VList(<<VDict(<<>>)>>))>>)))
    /\ v_result = Invalid(VStr(<<"Error in ", "'", "must", "'", " clause: ",
                                 "'", "query", "'", " cannot be empty">>))

\* the document's query is a nested-relation clause
IsNestedQuery(doc) ==
    /\ _validate_top_level_structure(doc) = None
    /\ HasKey(doc, K("query"))
    /\ IsDict(Get(doc, K("query"))) /\ Truthy(Get(doc, K("query")))
    /\ Keys(Get(doc, K("query")))[1] = K("nested")
NestedBody(doc) == Get(Get(doc, K("query")), K("nested"))
IsInvalid(result) == result.out = "return" /\ ~result.val.valid

\* C13: a nested clause is invalid when its body is not an Object, when the
\* body lacks path (the message names path; this is checked first) and when
\* it lacks query (the message names query); with both, the query is
\* validated as a clause and its error makes the document invalid.
C13_NestedNeedsPathAndQuery ==
    (ValidateDone /\ IsDocument(v_query) /\ IsNestedQuery(Document(v_query)))
    => LET body == NestedBody(Document(v_query))
       IN /\ ~IsDict(body) => IsInvalid(v_result)
          /\ (IsDict(body) /\ ~HasKey(body, K("path"))) =>
                /\ IsInvalid(v_result)
                /\ Contains(v_result.val.error.s, Quoted(K("path")))
                /\ ~Contains(v_result.val.error.s, Quoted(K("query")))
          /\ (IsDict(body) /\ HasKey(body, K("path")) /\ ~HasKey(body, K("query"))) =>
                /\ IsInvalid(v_result)
                /\ Contains(v_result.val.error.s, Quoted(K("query")))
          /\ (IsDict(body) /\ HasKey(body, K("path")) /\ HasKey(body, K("query"))
                /\ validate(None, Dict1("query", Get(body, K("query")))) # {Valid}) =>
                IsInvalid(v_result)
          /\ (IsDict(body) /\ HasKey(body, K("path")) /\ HasKey(body, K("query"))
                /\ validate(None, Dict1("query", Get(body, K("query")))) = {Valid}
                /\ v_mapping = None) =>
                v_result = Valid

\* a nested body with neither path nor query: the message names path
C13_Witness ==
    /\ ValidateDone
    /\ v_query = Dict1("query", Dict1("nested", VDict(<<>>)))
    /\ IsInvalid(v_result)
    /\ Contains(v_result.val.error.s, Quoted(K("path")))

\* the paging keys present in the document whose value is not an integer
\* >= 0 (a boolean, a string, a number with a fraction, null, an Object and
\* an Array are no integers)
BadPagingKeys(doc) ==
    {k \in {K("size"), K("from")} : HasKey(doc, k) /\ ~PagingOk(doc, k)}

\* C14: a paging key whose value is anything but an integer >= 0 makes the
\* document invalid, with an error naming that key.
C14_PagingNonNegativeInteger ==
    (ValidateDone /\ IsDocument(v_query)
        /\ UnknownTopLevelKeys(Document(v_query)) = <<>>
        /\ BadPagingKeys(Document(v_query)) # {})
    => /\ IsInvalid(v_result)
       /\ \E k \in BadPagingKeys(Document(v_query)) :
             Contains(v_result.val.error.s, Quoted(k))

\* the concatenation of a sequence of sequences
RECURSIVE ConcatAll(_)
ConcatAll(seqs) == IF Len(seqs) = 0 THEN <<>> ELSE seqs[1] \o ConcatAll(Tail(seqs))
\* a sequence without the later occurrences of its elements
RECURSIVE FirstOccurrences(_, _)
FirstOccurrences(seq, seen) ==
    IF Len(seq) = 0 THEN <<>>
    ELSE IF seq[1] \in seen THEN FirstOccurrences(Tail(seq), seen)
    ELSE <<seq[1]>> \o FirstOccurrences(Tail(seq), seen \cup {seq[1]})
\* the elements of a sequence that a predicate set holds
RECURSIVE Keep(_, _)
Keep(seq, set) ==
    IF Len(seq) = 0 THEN <<>>
    ELSE (IF seq[1] \in set THEN <<seq[1]>> ELSE <<>>) \o Keep(Tail(seq), set)

\* the field paths of a query tree in the order a depth-first traversal of
\* the document meets them (section 4.5): the keys of the body of a
\* field-bearing leaf clause, the entries of multi_match fields without their
\* boost, and whatever the other Objects and Arrays hold
RECURSIVE PathsInOrder(_)
PathsInOrder(v) ==
    IF IsDict(v)
    THEN ConcatAll([i \in 1..Len(v.kv) |->
            LET key == v.kv[i][1]
                value == v.kv[i][2]
            IN IF key \in FieldQueryTypes
               THEN (IF IsDict(value) THEN Keys(value) ELSE <<>>)
               ELSE IF key = K("multi_match") /\ IsDict(value) /\ HasKey(value, K("fields"))
               THEN (IF IsList(Get(value, K("fields")))
                     THEN [j \in 1..Len(Get(value, K("fields")).items) |->
                             LET f == Get(value, K("fields")).items[j]
                             IN IF IsStr(f) /\ IndexFrom(f.s, "^", 1) # 0
                                THEN SubSeq(f.s, 1, IndexFrom(f.s, "^", 1) - 1)
                                ELSE IF IsStr(f) THEN f.s ELSE <<>>]
                     ELSE <<>>)
               ELSE PathsInOrder(value)])
    ELSE IF IsList(v)
    THEN ConcatAll([i \in 1..Len(v.items) |-> PathsInOrder(v.items[i])])
    ELSE <<>>

\* the absent paths, each once, in the order of first encounter
AbsentInOrder(mapping, doc) ==
    Keep(FirstOccurrences(PathsInOrder(doc), {}), AbsentPaths(mapping, doc))

\* a structurally valid document and a schema that reach the comparison of
\* the conformance checker, the extractor having found what a traversal of
\* the document finds
ConformanceChecked(mapping, q) ==
    /\ IsDocument(q)
    /\ StructurallyValid(q)
    /\ IsDict(mapping) /\ Truthy(mapping)
    /\ _extract_field_names_from_mapping(mapping).exc = ""
    /\ _extract_field_names_from_query(Document(q)).exc = ""
    /\ _extract_field_names_from_query(Document(q)).names
          = {PathsInOrder(Document(q))[i] : i \in 1..Len(PathsInOrder(Document(q)))}

\* C15: the conformance error lists the absent paths in the order in which
\* the extractor first met them in the query tree, each once.
C15_UnknownFieldsInEncounterOrder ==
    (ValidateDone /\ ConformanceChecked(v_mapping, v_query)
        /\ AbsentPaths(v_mapping, Document(v_query)) # {})
    => v_result = Invalid(VStr(<<"Unknown fields in query: ">>
                               \o Join(AbsentInOrder(v_mapping, Document(v_query)),
                                       CommaSpace)))

\* a field entry without its trailing boost suffix ^<number>
StripBoost(f) ==
    IF Len(f) >= 2 /\ f[Len(f) - 1] = "^" /\ f[Len(f)] \in Digits
    THEN SubSeq(f, 1, Len(f) - 2) ELSE f
\* the document's query is a multi_match clause whose fields are strings
IsMultiMatchQuery(doc) ==
    /\ Len(doc.kv) = 1 /\ HasKey(doc, K("query"))
    /\ IsDict(Get(doc, K("query"))) /\ Keys(Get(doc, K("query"))) = <<K("multi_match")>>
    /\ LET body == Get(Get(doc, K("query")), K("multi_match"))
       IN /\ IsDict(body) /\ HasKey(body, K("fields"))
          /\ IsList(Get(body, K("fields")))
          /\ \A i \in 1..Len(Get(body, K("fields")).items) :
                IsStr(Get(body, K("fields")).items[i])
MultiMatchPaths(doc) ==
    LET fields == Get(Get(Get(doc, K("query")), K("multi_match")), K("fields")).items
    IN {StripBoost(fields[i].s) : i \in 1..Len(fields)}

\* C16: the entries of multi_match fields are recorded without their boost
\* suffix: both extractors yield the stripped paths, and against a schema
\* the document is valid when they are all declared and otherwise the
\* error lists exactly the stripped paths the schema lacks.
C16_BoostStripped ==
    (ValidateDone /\ IsDocument(v_query) /\ IsMultiMatchQuery(Document(v_query))
        /\ IsDict(v_mapping) /\ Truthy(v_mapping)
        /\ _extract_field_names_from_mapping(v_mapping).exc = "")
    => LET paths == MultiMatchPaths(Document(v_query))
           unknown == paths \ _extract_field_names_from_mapping(v_mapping).names
       IN /\ _extract_field_names_from_query(Document(v_query)) = Fields(paths)
          /\ extract_fields_from_query(v_query) = Fields(paths)
          /\ unknown = {} => v_result = Valid
          /\ unknown # {} =>
                \E ord \in Orders(unknown) :
                    v_result = Invalid(VStr(<<"Unknown fields in query: ">>
                                            \o Join(ord, CommaSpace)))

\* fields title^2 and body against a schema that declares title alone
C16_Witness ==
    /\ ValidateDone
    /\ v_query = Dict1("query", MultiMatch(<<VStr(<<"title", "^", "2">>), VStr(Body)>>))
    /\ v_mapping = SchemaTitle
    /\ v_result = Invalid(VStr(<<"Unknown fields in query: ", "body">>))

\* what structural validation alone gives for a document
StructuralOutcome(doc) ==
    IF _validate_top_level_structure(doc) # None
    THEN Invalid(_validate_top_level_structure(doc))
    ELSE IF HasKey(doc, K("query")) /\ _validate_query_structure(Get(doc, K("query"))) # None
    THEN Invalid(_validate_query_structure(Get(doc, K("query"))))
    ELSE Valid

\* C17: conformance checking is skipped exactly when no schema is supplied:
\* with no schema the outcome is that of structural validation alone, and
\* with a schema Object, be it empty or without any field, a structurally
\* valid query that references a path the schema lacks is invalid.
C17_SkippedOnlyWithoutSchema ==
    (ValidateDone /\ IsDocument(v_query)) =>
        /\ v_mapping = None => v_result = StructuralOutcome(Document(v_query))
        /\ ( /\ IsDict(v_mapping)
             /\ StructurallyValid(v_query)
             /\ _extract_field_names_from_mapping(v_mapping).exc = ""
             /\ _extract_field_names_from_query(Document(v_query)).exc = ""
             /\ AbsentPaths(v_mapping, Document(v_query)) # {} )
           => IsInvalid(v_result)

----------------------------------------------------------------------------
(* Claims about the operations of NLQueryTranslator                        *)

\* C18: validate comes before use: a query is handed to execute_query, and a
\* query is returned by translate, fix or improve, only if validate has been
\* run on that query and found it valid.
C18_ValidatedBeforeUse ==
    /\ (o_op = "execute" /\ o_forwarded) => o_query \in validated
    /\ (o_op \in {"translate", "fix", "improve"} /\ o_result.out = "return")
          => o_result.val \in validated

\* C19: execute hands the query to execute_query exactly when a client is
\* set and its is_connected() says True; otherwise it raises ValueError and
\* execute_query is not called.
C19_ExecuteOnlyWhenConnected ==
    o_op = "execute" =>
        /\ o_forwarded <=> o_is_connected = VBool(TRUE)
        /\ o_is_connected = VBool(TRUE) => o_result \in ExecuteQueryResults
        /\ ~o_forwarded => o_result = Raise("ValueError")

\* a client holding a handle that does not answer: ValueError, no call
C19_Witness ==
    /\ o_op = "execute"
    /\ database_client = "connected"
    /\ o_is_connected = VBool(FALSE)
    /\ ~o_forwarded
    /\ o_result = Raise("ValueError")

\* the error message validation of a query against a mapping gives: None
\* when the query is valid
ValidationErrors(mapping, query) ==
    {IF r.val.valid THEN None ELSE r.val.error :
        r \in {x \in validate(mapping, query) : x.out = "return"}}

\* C20: fix hands fix_query the caller's error_message unchanged when one is
\* given, without consulting validate; when none is given it hands over the
\* error of validating the query against the given mapping, and no message
\* when the query is valid (no database client being set, the given mapping
\* is the argument).
C20_FixErrorMessage ==
    (o_op = "fix" /\ database_client = "none") =>
        /\ o_error_message # None => (o_passed = o_error_message /\ ~o_consulted)
        /\ o_error_message = None =>
              (o_consulted /\ o_passed \in ValidationErrors(o_mapping, o_query))

----------------------------------------------------------------------------
(* Claims about ElasticsearchClient *)

\* C21: after any sequence of connect and disconnect calls the client holds
\* a handle only if the most recent connect succeeded and no successful
\* disconnect followed it: a connect whose connection test fails raises and
\* leaves no handle; a disconnect that finds a handle calls close() on it
\* once, and drops it exactly when it returns True; a disconnect that finds
\* no handle returns True; is_connected() is False whenever there is none.
C21_HandleOnlyAfterConnect ==
    /\ [](/\ client # None => (c_connect = "ok" /\ ~c_disconnected)
          /\ (c_op = "connect" /\ c_result.out = "raise") => client = None
          /\ (c_op = "is_connected" /\ client = None) => c_result = Return(VBool(FALSE)))
    /\ [][c_op' = "disconnect" =>
             IF client = None
             THEN c_result' = Return(VBool(TRUE)) /\ c_requests' = <<>> /\ client' = None
             ELSE /\ c_requests' = <<"close">>
                  /\ client' \in {None, client}
                  /\ c_result' = Return(VBool(client' = None))]_vars

\* a handle was held after a connect that succeeded and a disconnect has
\* closed and dropped it
C21_Witness ==
    /\ c_op = "disconnect"
    /\ c_requests = <<"close">>
    /\ c_result = Return(VBool(TRUE))
    /\ client = None
    /\ c_connect = "ok"

\* the requests for data: a search, a mapping, the aliases
DataRequests == {"search", "indices.get_mapping", "indices.get_alias"}
SentDataRequest == \E i \in 1..Len(c_requests) : c_requests[i] \in DataRequests
\* the call names no index: self.index is falsy and so is the argument
NoIndexGiven ==
    \/ c_op = "execute_query" /\ ~Truthy(index)
    \/ c_op = "get_mapping" /\ ~Truthy(index) /\ ~Truthy(c_arg)

\* C22: execute_query, get_mapping and list_indices raise 'Not connected to
\* Elasticsearch' whenever is_connected() is False, and send no search,
\* mapping or alias request then; the connection is checked before the
\* index ('No index specified' is raised only by a connected client that
\* is given no index), and the index before any request.
C22_ConnectionCheckedFirst ==
    c_op \in {"execute_query", "get_mapping", "list_indices"} =>
        /\ c_is_connected = VBool(FALSE) => (c_result = NotConnected /\ ~SentDataRequest)
        /\ (c_is_connected = VBool(TRUE) /\ NoIndexGiven)
              => (c_result = NoIndex /\ ~SentDataRequest)
        /\ c_result = NotConnected => c_is_connected = VBool(FALSE)
        /\ c_result = NoIndex => (c_is_connected = VBool(TRUE) /\ NoIndexGiven)

\* execute_query on a client that holds a handle whose info() fails and that
\* has no index: both checks would fail, the connection's is the one raised
C22_Witness ==
    /\ c_op = "execute_query"
    /\ client # None
    /\ c_is_connected = VBool(FALSE)
    /\ ~Truthy(index)
    /\ c_result = NotConnected

----------------------------------------------------------------------------
(* Claims about QueryExporter *)

\* C23: QueryExporter.export given the format as the str 'JSON' or 'TEXT'
\* gives what it gives for ExportFormat.JSON or ExportFormat.TEXT, and
\* raises ValueError for any other name.
C23_FormatNamesAccepted ==
    x_op = "QueryExporter.export" =>
        /\ x_format = VStr(K("JSON"))
              => x_result = export(x_pretty_print, x_query, ExportFormat_JSON)
        /\ x_format = VStr(K("TEXT"))
              => x_result = export(x_pretty_print, x_query, ExportFormat_TEXT)
        /\ x_format \in FormatNames \ {VStr(K("JSON")), VStr(K("TEXT"))}
              => x_result = Raise("ValueError")

----------------------------------------------------------------------------
(* Claims about validation against a fetched mapping *)

\* the fields a mapping of get_mapping's shape declares: the names under
\* 'properties' under 'mappings' under each index name
DeclaredByIndex(m) ==
    UNION {LET props == Get(Get(m.kv[i][2], K("mappings")), K("properties"))
           IN {Keys(props)[j] : j \in 1..Len(props.kv)} : i \in 1..Len(m.kv)}

\* C24: when NLQueryTranslator.validate fetches the schema from the
\* database client (index name -> 'mappings' -> 'properties' -> fields), a
\* structurally valid query whose fields are all declared in that mapping,
\* referenced by their plain names, is valid.
C24_FetchedSchemaConforms ==
    \A t \in Threads :
        ( /\ t_pc[t] = "done"
          /\ t_branch[t] = "database"
          /\ query_validator \in IndexMappings
          /\ StructurallyValid(t_query[t])
          /\ _extract_field_names_from_query(t_query[t]).names
                \subseteq DeclaredByIndex(query_validator) )
        => t_result[t] = Valid

----------------------------------------------------------------------------
(* Claims about the order of the checks of validate *)

StartsWith(s, prefix) == Len(s) >= Len(prefix) /\ SubSeq(s, 1, Len(prefix)) = prefix
\* the outcome carries the error of the paging check for one of the keys
IsPagingError(result, keys) ==
    /\ IsInvalid(result)
    /\ \E k \in keys :
          result.val.error = VStr(Quoted(k) \o <<" must be a non-negative integer">>)
\* the clause structure of the document's query is at fault
BadClauseStructure(doc) ==
    HasKey(doc, K("query")) /\ _validate_query_structure(Get(doc, K("query"))) # None

\* the outcome is that of the first check that fails, in the order:
\* document is an Object, top-level keys, paging values (bad_paging are the
\* paging keys at fault), clause structure of query, schema conformance
FirstErrorInOrder(q, result, bad_paging) ==
    /\ ~IsDocument(q) =>
          result \in {Invalid(VStr(<<"Query must be a JSON object">>)),
                      Invalid(VStr(<<"Invalid JSON: ", "<JSONDecodeError>">>))}
    /\ (IsDocument(q) /\ UnknownTopLevelKeys(Document(q)) # <<>>) =>
          /\ IsInvalid(result)
          /\ StartsWith(result.val.error.s, <<"Unknown top-level keys: ">>)
    /\ (IsDocument(q) /\ UnknownTopLevelKeys(Document(q)) = <<>> /\ bad_paging # {}) =>
          IsPagingError(result, bad_paging)
    /\ (IsDocument(q) /\ UnknownTopLevelKeys(Document(q)) = <<>> /\ bad_paging = {}
          /\ BadClauseStructure(Document(q))) =>
          result = Invalid(_validate_query_structure(Get(Document(q), K("query"))))
    /\ (IsInvalid(result) /\ StartsWith(result.val.error.s, <<"Unknown fields in query: ">>)) =>
          /\ IsDocument(q)
          /\ UnknownTopLevelKeys(Document(q)) = <<>>
          /\ bad_paging = {}
          /\ ~BadClauseStructure(Document(q))
    /\ result.val.valid => result.val.error = None
    /\ ~result.val.valid => (IsStr(result.val.error) /\ Truthy(result.val.error))

\* C25: an outcome of validate carries exactly one error, that of the
\* first check that fails in the order non-object document, unknown
\* top-level keys, paging values (an integer >= 0 is asked for), clause
\* structure of query, schema conformance; a conformance error is reported
\* only for a document that passes every structural check, and a valid
\* outcome carries no error.
C25_FirstErrorInCheckOrder ==
    (ValidateDone /\ v_result.out = "return")
    => FirstErrorInOrder(v_query, v_result,
                         IF IsDocument(v_query) THEN BadPagingKeys(Document(v_query))
                         ELSE {})

----------------------------------------------------------------------------
(* Claims about the clauses of a query *)

\* the clauses the structural validator may reach from a clause: itself,
\* the sub-clauses of a bool body, the query of a nested body, and theirs
RECURSIVE ReachedClauses(_)
ReachedClauses(c) ==
    {c} \cup (IF IsDict(c) /\ Truthy(c)
              THEN UNION {ReachedClauses(sub) : sub \in ClausesUnder(c)}
              ELSE {})
\* a non-empty Object whose first key is a clause type
AcceptableClause(c) == IsDict(c) /\ Truthy(c) /\ Keys(c)[1] \in VALID_QUERY_TYPES
\* a non-empty Object whose first key is no clause type
UnknownTypeClause(c) == IsDict(c) /\ Truthy(c) /\ Keys(c)[1] \notin VALID_QUERY_TYPES
EndsWith(s, suffix) ==
    Len(s) >= Len(suffix) /\ SubSeq(s, Len(s) - Len(suffix) + 1, Len(s)) = suffix
\* the document passes the top-level checks and has a query
HasQueryClause(q) ==
    /\ IsDocument(q)
    /\ _validate_top_level_structure(Document(q)) = None
    /\ HasKey(Document(q), K("query"))

\* C26: validation fails whenever a clause that the structural validator
\* may reach (the value of query, a sub-clause of a bool, the query of a
\* nested) is not a non-empty Object whose first key is in ClauseTypes; a
\* query with an unknown first key is rejected with the error that names
\* the key, and an unknown-type error ends with the key of such a clause.
C26_ClausesAreTypedObjects ==
    (ValidateDone /\ HasQueryClause(v_query))
    => LET query == Get(Document(v_query), K("query"))
           bad == {c \in ReachedClauses(query) : ~AcceptableClause(c)}
       IN /\ bad # {} => IsInvalid(v_result)
          /\ UnknownTypeClause(query) =>
                v_result = Invalid(VStr(<<"Unknown query type: ">> \o Keys(query)[1]))
          /\ (IsInvalid(v_result)
                /\ Contains(v_result.val.error.s, <<"Unknown query type: ">>)) =>
                \E c \in bad :
                    /\ UnknownTypeClause(c)
                    /\ EndsWith(v_result.val.error.s,
                                <<"Unknown query type: ">> \o Keys(c)[1])

\* the second of two clauses under must has an unknown type
C26_Witness ==
    /\ ValidateDone
    /\ v_query = Dict1("query", Dict1("bool",
                     Dict1("must", VList(<<QMatch(Title), UnknownClause>>))))
    /\ v_result = Invalid(VStr(<<"Error in ", "'", "must", "'", " clause: ",
                                 "Unknown query type: ", "unknown_clause">>))

----------------------------------------------------------------------------
(* Claims about the body of a boolean composition *)

\* the keys a boolean composition may have
BoolSubClauses ==
    {K("must"), K("must_not"), K("should"), K("filter"),
     K("minimum_should_match"), K("boost")}
IsBoolClause(c) == IsDict(c) /\ Truthy(c) /\ Keys(c)[1] = K("bool")
\* the body of a boolean composition is no Object, or has a key it may not
BadBoolBody(c) ==
    \/ ~IsDict(Get(c, K("bool")))
    \/ NotIn(Keys(Get(c, K("bool"))), BoolSubClauses) # <<>>

\* C27: a boolean composition whose body is not an Object, or has a key
\* outside must, must_not, should, filter, minimum_should_match, boost,
\* makes the validation fail wherever it stands; when it is the query
\* itself the error lists all the unknown keys of the body, whatever
\* stands under must, must_not, should and filter.
C27_BoolBodyChecked ==
    (ValidateDone /\ HasQueryClause(v_query))
    => LET query == Get(Document(v_query), K("query"))
       IN /\ (\E c \in ReachedClauses(query) : IsBoolClause(c) /\ BadBoolBody(c))
                => IsInvalid(v_result)
          /\ (IsBoolClause(query) /\ ~IsDict(Get(query, K("bool")))) =>
                v_result = Invalid(VStr(Quoted(K("bool")) \o <<" query must be a JSON object">>))
          /\ (IsBoolClause(query) /\ IsDict(Get(query, K("bool")))
                /\ NotIn(Keys(Get(query, K("bool"))), BoolSubClauses) # <<>>) =>
                v_result = Invalid(VStr(<<"Unknown ", "'", "bool", "'", " clauses: ">>
                               \o Join(NotIn(Keys(Get(query, K("bool"))), BoolSubClauses),
                                       CommaSpace)))

\* a body with an unknown key and, under must, a clause of unknown type:
\* the error is the unknown key's
C27_Witness ==
    /\ ValidateDone
    /\ v_query = Dict1("query", Dict1("bool",
                     VDict(<<Pair("must", UnknownClause), Pair("bogus", VInt(1))>>)))
    /\ v_result = Invalid(VStr(<<"Unknown ", "'", "bool", "'", " clauses: ", "bogus">>))

----------------------------------------------------------------------------
(* Claims about the schema flattener *)

\* the paths a schema declares below an Object reached with a prefix: for
\* every (name, definition) pair under its 'properties', prefix + name and,
\* when the definition has 'properties' itself, what the definition
\* declares with prefix + name + "."; and what any other Object-valued key
\* declares with prefix + key + "."
RECURSIVE DeclaredUnder(_, _)
DeclaredUnder(prefix, obj) ==
    IF ~IsDict(obj) THEN {}
    ELSE (IF HasKey(obj, K("properties")) /\ IsDict(Get(obj, K("properties")))
          THEN UNION {LET name == Get(obj, K("properties")).kv[i][1]
                          definition == Get(obj, K("properties")).kv[i][2]
                      IN {prefix \o name}
                         \cup (IF IsDict(definition) /\ HasKey(definition, K("properties"))
                               THEN DeclaredUnder(prefix \o name \o <<".">>, definition)
                               ELSE {}) :
                         i \in 1..Len(Get(obj, K("properties")).kv)}
          ELSE {})
         \cup UNION {IF obj.kv[i][1] # K("properties")
                     THEN DeclaredUnder(prefix \o obj.kv[i][1] \o <<".">>, obj.kv[i][2])
                     ELSE {} : i \in 1..Len(obj.kv)}

\* C28: for a schema Object the flattener gives a SchemaIndex that holds
\* the path of every declared field (prefix + name for each pair under a
\* 'properties' key reached with that prefix, at any depth), and every
\* path of the index is non-empty.
C28_FlattenerOmitsNothing ==
    (ValidateDone /\ IsDict(v_mapping))
    => LET index_ == _extract_field_names_from_mapping(v_mapping)
       IN /\ index_.exc = ""
          /\ DeclaredUnder(<<>>, v_mapping) \subseteq index_.names
          /\ \A path \in index_.names : path # <<>>

----------------------------------------------------------------------------
(* Claims about the field reference extractor *)

\* the keys of the body of every field-bearing clause of a tree: every
\* Object and every Array that is not such a body is gone through,
\* whatever holds it
RECURSIVE FieldBodyKeys(_)
FieldBodyKeys(v) ==
    IF IsDict(v)
    THEN UNION {IF v.kv[i][1] \in FieldQueryTypes
                THEN (IF IsDict(v.kv[i][2])
                      THEN {Keys(v.kv[i][2])[j] : j \in 1..Len(v.kv[i][2].kv)}
                      ELSE {})
                ELSE FieldBodyKeys(v.kv[i][2]) : i \in 1..Len(v.kv)}
    ELSE IF IsList(v)
    THEN UNION {FieldBodyKeys(v.items[i]) : i \in 1..Len(v.items)}
    ELSE {}

\* C29: the set the extractor returns holds the keys of the body of every
\* match, match_phrase, term, terms, range, exists, prefix, wildcard, regexp
\* and fuzzy clause anywhere in the query tree, below Objects and Arrays
\* alike, an Array directly inside an Array included; so for both copies
\* of the extractor.
C29_ExtractorReachesEveryClause ==
    (ValidateDone /\ IsDocument(v_query)
        /\ _extract_field_names_from_query(Document(v_query)).exc = "")
    => /\ FieldBodyKeys(Document(v_query))
             \subseteq _extract_field_names_from_query(Document(v_query)).names
       /\ FieldBodyKeys(Document(v_query))
             \subseteq extract_fields_from_query(v_query).names

----------------------------------------------------------------------------
(* Claims about the four copies of the tolerant extraction *)

\* what the four copies make of one text
CopyResults(txt) ==
    <<parse_query_string(txt), generate_query(txt), fix_query(txt),
      improve_query(txt)>>

\* the four results are the return of one value, or are four failures
\* (ValueError from parse_query_string, Exception from the generator)
CopiesAgree(rs) ==
    \/ \A i \in 1..4 : rs[i].out = "return" /\ rs[i].val = rs[1].val
    \/ \A i \in 1..4 : rs[i].out = "raise"

\* C30: parse_query_string and the extraction inside generate_query,
\* fix_query and improve_query are equivalent: on every text, once one of
\* them has been applied, its result is what each of the four gives, and
\* the four either return the same value or all raise.
C30_CopiesEquivalent ==
    RecoverDone
    => /\ CopiesAgree(CopyResults(r_text))
       /\ \E i \in 1..4 :
             /\ r_fn = <<"parse_query_string", "generate_query", "fix_query",
                         "improve_query">>[i]
             /\ r_result = CopyResults(r_text)[i]

\* fix_query has returned a value that only the brace scan could find
C30_Witness ==
    /\ RecoverDone
    /\ r_fn = "fix_query"
    /\ r_result.out = "return"
    /\ ~json_loads(r_text).ok
    /\ ~FenceSearch(r_text).found

====
